---- MODULE Spec2Model ----
(***************************************************************************)
(* Model of terraform-provider-context: the name-prefix generator          *)
(* (NameGenerator), the per-cloud tag formatting rules (CloudProvider),    *)
(* the tag processor, the repository metadata cache, the field validators  *)
(* and the data source's Read.                                             *)
(*                                                                         *)
(* Strings are sequences of one-character strings, so that len(), slices,  *)
(* strings.ToLower, strings.TrimSuffix and the regular expressions are     *)
(* computed character by character as the Go code computes them.  The      *)
(* alphabets are ASCII: one character is one byte.                         *)
(***************************************************************************)
EXTENDS Integers, Sequences, FiniteSets, TLC

VARIABLES
    ng,          \* the NameGenerator struct: Namespace, Name, Environment
    genOut,      \* what Generate returned: called, value, err
    truncOut,    \* what intelligentTruncate returned inside Generate
    providerId,  \* the identifier handed to GetCloudProvider
    tagValue,    \* the value handed to SanitizeTagValue
    cp,          \* the CloudProvider GetCloudProvider returned ("none" before)
    sanitized,   \* what SanitizeTagValue returned: called, value
    resanitized, \* what SanitizeTagValue returned for the sanitized value
    tp,          \* the TagProcessor: CloudProvider, TagPrefix (Config points to config)
    config,      \* the DataSourceConfig
    tagsOut,     \* what Process returned: called, tags, err
    dataTagsOut, \* what ProcessDataTags returned: called, tags, err
    gitCache,    \* the cached *GitInfo, Nil when unpopulated
    gitCacheTime,\* when the cache was populated, in minutes; ZeroTime for time.Time{}
    now,         \* the clock, in minutes
    gitEnv,      \* what the two git commands answer: ok flags and raw output
    ephemeralDone, \* whether ProcessEphemeralEnvironment has returned
    pc,          \* where each caller of GetGitInfo stands
    local,       \* each caller's info, the GitInfo it is filling
    ret,         \* what GetGitInfo returned to each caller
    ran,         \* history: whether the caller ran the git commands
    startKind,   \* history: the cache as the caller found it when it called
    disturbed,   \* history: a clear or an expiry happened during the call
    retErr,      \* the error GetGitInfo returned to each caller ("none" before)
    cleared,     \* history: ClearGitCache ran and nothing was stored since
    clearPc,     \* where the caller of ClearGitCache stands
    cacheOwner,  \* the caller whose info object gitCache points to, 0 for none
    fmtTags,     \* the tag set handed to the formatters
    iterOrder,   \* history: the order the last formatter's range loop met the keys in
    listOut,     \* what ConvertTagsToListOfMaps returned
    kvpOut,      \* what ConvertTagsToKVPList returned
    csvOut,      \* what ConvertTagsToCommaSeparated returned
    providerConfig, \* the provider's configuration: CloudProvider, TagPrefix
    readPc,      \* where the data source's Read stands
    diagnostics, \* resp.Diagnostics: the summaries of the errors added
    stateOut,    \* what Read set as the state: set, NamePrefix, Tags, DataTags
    urlIn,       \* the URL handed to convertSSHToHTTPS
    urlOut       \* what convertSSHToHTTPS returned: called, value

namingVars == <<ng, genOut, truncOut>>

cloudVars == <<providerId, tagValue, cp, sanitized, resanitized>>

tagVars == <<tp, config, tagsOut, dataTagsOut>>

gitVars == <<gitCache, gitCacheTime, now, gitEnv>>

callerVars ==
    <<pc, local, ret, ran, startKind, disturbed, retErr, cleared, clearPc, cacheOwner>>

formatVars == <<fmtTags, iterOrder, listOut, kvpOut, csvOut>>

readVars == <<providerConfig, readPc, diagnostics, stateOut>>

urlVars == <<urlIn, urlOut>>

vars ==
    <<namingVars, cloudVars, tagVars, gitVars, ephemeralDone, callerVars, formatVars,
      readVars, urlVars>>

----------------------------------------------------------------------------
(* Characters and strings *)

UpperLetters ==
    <<"A","B","C","D","E","F","G","H","I","J","K","L","M",
      "N","O","P","Q","R","S","T","U","V","W","X","Y","Z">>

LowerLetters ==
    <<"a","b","c","d","e","f","g","h","i","j","k","l","m",
      "n","o","p","q","r","s","t","u","v","w","x","y","z">>

Digits == {"0","1","2","3","4","5","6","7","8","9"}

IsUpper(c) == \E i \in 1..Len(UpperLetters) : UpperLetters[i] = c

IsLower(c) == \E i \in 1..Len(LowerLetters) : LowerLetters[i] = c

IsDigit(c) == c \in Digits

\* unicode.ToLower on one ASCII character
ToLowerChar(c) ==
    IF IsUpper(c)
    THEN LowerLetters[CHOOSE i \in 1..Len(UpperLetters) : UpperLetters[i] = c]
    ELSE c

\* strings.ToLower
ToLower(s) == [i \in 1..Len(s) |-> ToLowerChar(s[i])]

\* strings.HasSuffix(s, "-")
HasSuffixHyphen(s) == Len(s) > 0 /\ s[Len(s)] = "-"

\* strings.TrimSuffix(s, "-"): removes one trailing hyphen, if there is one
TrimSuffixHyphen(s) == IF HasSuffixHyphen(s) THEN SubSeq(s, 1, Len(s) - 1) ELSE s

\* strings.HasPrefix / strings.HasSuffix on sequences
HasPrefix(s, p) == Len(s) >= Len(p) /\ SubSeq(s, 1, Len(p)) = p

HasSuffix(s, p) == Len(s) >= Len(p) /\ SubSeq(s, Len(s) - Len(p) + 1, Len(s)) = p

\* n copies of the character c
Fill(c, n) == [i \in 1..n |-> c]

\* all sequences over S of length at most n
RECURSIVE SeqsUpTo(_, _)
SeqsUpTo(S, n) ==
    IF n = 0 THEN {<<>>}
    ELSE LET shorter == SeqsUpTo(S, n - 1)
         IN  shorter \cup {Append(s, c) : s \in shorter, c \in S}

----------------------------------------------------------------------------
(* Name generator *)

MaxNamePrefixLength == 24

MinNamePrefixLength == 2

\* the {0,22} of namePrefixRegex
RegexMiddleMax == 22

\* namePrefixRegex.MatchString: ^[a-z][a-z0-9-]{0,22}[a-z0-9]$
namePrefixRegex(s) ==
    /\ Len(s) >= 2
    /\ Len(s) - 2 <= RegexMiddleMax
    /\ IsLower(s[1])
    /\ \A i \in 2..(Len(s) - 1) : IsLower(s[i]) \/ IsDigit(s[i]) \/ s[i] = "-"
    /\ IsLower(s[Len(s)]) \/ IsDigit(s[Len(s)])

\* regexp.MustCompile(`[a-z0-9]$`).MatchString
endsAlnumRegex(s) == Len(s) > 0 /\ (IsLower(s[Len(s)]) \/ IsDigit(s[Len(s)]))

\* the loop of intelligentTruncate: drop trailing hyphens while longer than the minimum
RECURSIVE stripTrailingHyphens(_)
stripTrailingHyphens(result) ==
    IF HasSuffixHyphen(result) /\ Len(result) > MinNamePrefixLength
    THEN stripTrailingHyphens(SubSeq(result, 1, Len(result) - 1))
    ELSE result

\* the three fields joined and cut at the limit, the environment not kept
preserveTruncateCutsEnd(g, availableForName) ==
    SubSeq(g.Namespace \o <<"-">> \o g.Name \o <<"-">> \o g.Environment,
           1, MaxNamePrefixLength)

\* intelligentTruncate, the branch that keeps namespace and environment
preserveTruncate(g, availableForName) ==
    LET truncatedName == IF Len(g.Name) > availableForName
                         THEN SubSeq(g.Name, 1, availableForName)
                         ELSE g.Name
    IN  g.Namespace \o <<"-">> \o TrimSuffixHyphen(truncatedName) \o <<"-">> \o g.Environment

\* the fallback without the last step, the one that drops a final character
\* that is no lowercase letter and no digit
simpleTruncateHyphensOnly(namePrefix) ==
    stripTrailingHyphens(SubSeq(namePrefix, 1, MaxNamePrefixLength))

\* intelligentTruncate, the fallback: cut at MaxNamePrefixLength and tidy the end
simpleTruncate(namePrefix) ==
    LET cut      == SubSeq(namePrefix, 1, MaxNamePrefixLength)
        stripped == stripTrailingHyphens(cut)
    IN  IF Len(stripped) > 0 /\ ~endsAlnumRegex(stripped)
        THEN SubSeq(stripped, 1, Len(stripped) - 1)
        ELSE stripped

\* intelligentTruncate without the branch that keeps namespace and environment
intelligentTruncateAlwaysSimple(g, namePrefix) ==
    IF Len(namePrefix) <= MaxNamePrefixLength THEN namePrefix
    ELSE simpleTruncate(namePrefix)

intelligentTruncate(g, namePrefix) ==
    IF Len(namePrefix) <= MaxNamePrefixLength THEN namePrefix
    ELSE LET baseLen          == Len(g.Namespace) + Len(g.Environment) + 2
             availableForName == MaxNamePrefixLength - baseLen
         IN  IF /\ g.Namespace # <<>> /\ g.Name # <<>> /\ g.Environment # <<>>
                /\ availableForName >= 2
             THEN preserveTruncate(g, availableForName)
             ELSE simpleTruncate(namePrefix)

\* The result of a call: the returned string and the error ("" is nil)
Ok(v) == [value |-> v, err |-> ""]

Fail(e) == [value |-> <<>>, err |-> e]

\* validateAndTruncate without the final pattern check
validateAndTruncateNoPattern(g, namePrefix) ==
    LET lowered == ToLower(namePrefix)
        fitted  == IF Len(lowered) > MaxNamePrefixLength
                   THEN intelligentTruncate(g, lowered)
                   ELSE lowered
    IN  IF Len(lowered) < MinNamePrefixLength THEN Fail("too_short")
        ELSE Ok(fitted)

validateAndTruncate(g, namePrefix) ==
    LET lowered == ToLower(namePrefix)
        fitted  == IF Len(lowered) > MaxNamePrefixLength
                   THEN intelligentTruncate(g, lowered)
                   ELSE lowered
    IN  IF Len(lowered) < MinNamePrefixLength THEN Fail("too_short")
        ELSE IF ~namePrefixRegex(fitted) THEN Fail("invalid_format")
        ELSE Ok(fitted)

\* a join that forgets the separator
RECURSIVE JoinNoSeparator(_)
JoinNoSeparator(parts) ==
    IF Len(parts) = 0 THEN <<>>
    ELSE parts[1] \o JoinNoSeparator(Tail(parts))

\* strings.Join(parts, "-")
RECURSIVE JoinHyphen(_)
JoinHyphen(parts) ==
    IF Len(parts) = 0 THEN <<>>
    ELSE IF Len(parts) = 1 THEN parts[1]
    ELSE parts[1] \o <<"-">> \o JoinHyphen(Tail(parts))

\* the parts slice Generate builds: the non-empty fields, in order
nameParts(g) ==
    (IF g.Namespace # <<>> THEN <<g.Namespace>> ELSE <<>>)
    \o (IF g.Name # <<>> THEN <<g.Name>> ELSE <<>>)
    \o (IF g.Environment # <<>> THEN <<g.Environment>> ELSE <<>>)

\* Generate without the name-only shortcut
GenerateResultNoShortcut(g) ==
    IF Len(nameParts(g)) = 0 THEN Fail("all_empty")
    ELSE validateAndTruncate(g, JoinHyphen(nameParts(g)))

GenerateResult(g) ==
    IF g.Namespace = <<>> /\ g.Environment = <<>>
    THEN IF g.Name = <<>> THEN Fail("name_required")
         ELSE validateAndTruncate(g, g.Name)
    ELSE IF Len(nameParts(g)) = 0 THEN Fail("all_empty")
    ELSE validateAndTruncate(g, JoinHyphen(nameParts(g)))

\* the string validateAndTruncate is called with, when it is called
generateJoined(g) ==
    IF g.Namespace = <<>> /\ g.Environment = <<>> THEN g.Name
    ELSE JoinHyphen(nameParts(g))

\* whether Generate reaches the intelligentTruncate call
generateTruncates(g) ==
    /\ ~(g.Namespace = <<>> /\ g.Environment = <<>> /\ g.Name = <<>>)
    /\ Len(ToLower(generateJoined(g))) >= MinNamePrefixLength
    /\ Len(ToLower(generateJoined(g))) > MaxNamePrefixLength

----------------------------------------------------------------------------
(* Cloud format rules *)

AWSProvider == "AWSProvider"

AzureProvider == "AzureProvider"

GCPProvider == "GCPProvider"

DefaultProvider == "DefaultProvider"

CloudProviders == {AWSProvider, AzureProvider, GCPProvider, DefaultProvider}

\* a lookup keyed on "azure" instead of "az"
GetCloudProviderAzureKey(provider) ==
    CASE provider = "aws"   -> AWSProvider
      [] provider = "azure" -> AzureProvider
      [] provider = "gcp"   -> GCPProvider
      [] OTHER              -> DefaultProvider

GetCloudProvider(provider) ==
    CASE provider = "aws" -> AWSProvider
      [] provider = "az"  -> AzureProvider
      [] provider = "gcp" -> GCPProvider
      [] OTHER            -> DefaultProvider

GetMaxTagLength(p) ==
    CASE p = AWSProvider     -> 256
      [] p = AzureProvider   -> 256
      [] p = GCPProvider     -> 63
      [] p = DefaultProvider -> 63

GetDelimiter(p) ==
    CASE p = AWSProvider     -> <<" ">>
      [] p = AzureProvider   -> <<";">>
      [] p = GCPProvider     -> <<"_">>
      [] p = DefaultProvider -> <<";">>

GetNAValue(p) ==
    CASE p = AWSProvider     -> <<"N","/","A">>
      [] p = AzureProvider   -> <<"N","o","t","A","p","p","l","i","c","a","b","l","e">>
      [] p = GCPProvider     -> <<"n","o","t","_","a","p","p","l","i","c","a","b","l","e">>
      [] p = DefaultProvider -> <<"N","/","A">>

\* the character class of awsSanitizeRegex, [^a-zA-Z0-9 \\.:=+@_/-]: in the raw
\* string literal \\ is an escaped backslash, so the backslash is in the class
awsSanitizeRegex(c) ==
    ~(\/ IsLower(c) \/ IsUpper(c) \/ IsDigit(c)
      \/ c \in {" ", "\\", ".", ":", "=", "+", "@", "_", "/", "-"})

\* azureSanitizeRegex, [ <>%&\\?/#:]
azureSanitizeRegex(c) == c \in {" ", "<", ">", "%", "&", "\\", "?", "/", "#", ":"}

\* gcpSanitizeRegex, [^a-z0-9_-]
gcpSanitizeRegex(c) == ~(IsLower(c) \/ IsDigit(c) \/ c \in {"_", "-"})

\* defaultSanitizeRegex, [<>%&\\?]
defaultSanitizeRegex(c) == c \in {"<", ">", "%", "&", "\\", "?"}

AWSSanitizeTagValue(value) ==
    [i \in 1..Len(value) |-> IF awsSanitizeRegex(value[i]) THEN "_" ELSE value[i]]

\* an Azure sanitizer that replaces with "_" instead of deleting
AzureSanitizeTagValueReplace(value) ==
    [i \in 1..Len(value) |-> IF azureSanitizeRegex(value[i]) THEN "_" ELSE value[i]]

AzureSanitizeTagValue(value) ==
    SelectSeq(value, LAMBDA c : ~azureSanitizeRegex(c))

\* a GCP sanitizer that lowercases after replacing instead of before
GCPSanitizeTagValueLowerLast(value) ==
    ToLower([i \in 1..Len(value) |-> IF gcpSanitizeRegex(value[i]) THEN "-" ELSE value[i]])

GCPSanitizeTagValue(value) ==
    LET lowered == ToLower(value)
    IN  [i \in 1..Len(lowered) |-> IF gcpSanitizeRegex(lowered[i]) THEN "-" ELSE lowered[i]]

\* a generic sanitizer that replaces the first match only
DefaultSanitizeTagValueFirstOnly(value) ==
    [i \in 1..Len(value) |->
        IF defaultSanitizeRegex(value[i])
           /\ \A j \in 1..(i - 1) : ~defaultSanitizeRegex(value[j])
        THEN "_" ELSE value[i]]

DefaultSanitizeTagValue(value) ==
    [i \in 1..Len(value) |-> IF defaultSanitizeRegex(value[i]) THEN "_" ELSE value[i]]

\* the interface method, dispatched on the provider's type
SanitizeTagValue(p, value) ==
    CASE p = AWSProvider     -> AWSSanitizeTagValue(value)
      [] p = AzureProvider   -> AzureSanitizeTagValue(value)
      [] p = GCPProvider     -> GCPSanitizeTagValue(value)
      [] p = DefaultProvider -> DefaultSanitizeTagValue(value)

\* awsValidateKeyRegex: ^[a-zA-Z0-9 +\-=._:/]+$
AWSValidateTagKey(key) ==
    /\ Len(key) > 0
    /\ \A i \in 1..Len(key) :
          \/ IsLower(key[i]) \/ IsUpper(key[i]) \/ IsDigit(key[i])
          \/ key[i] \in {" ", "+", "-", "=", ".", "_", ":", "/"}

\* azureValidateKeyRegex, [<>%&\\?/], does not match
AzureValidateTagKey(key) ==
    ~\E i \in 1..Len(key) : key[i] \in {"<", ">", "%", "&", "\\", "?", "/"}

\* gcpValidateKeyRegex: ^[a-z][a-z0-9_-]*$
GCPValidateTagKey(key) ==
    /\ Len(key) > 0
    /\ IsLower(key[1])
    /\ \A i \in 2..Len(key) : IsLower(key[i]) \/ IsDigit(key[i]) \/ key[i] \in {"_", "-"}

\* defaultValidateKeyRegex: ^[a-zA-Z0-9_-]+$
DefaultValidateTagKey(key) ==
    /\ Len(key) > 0
    /\ \A i \in 1..Len(key) :
          IsLower(key[i]) \/ IsUpper(key[i]) \/ IsDigit(key[i]) \/ key[i] \in {"_", "-"}

ValidateTagKey(p, key) ==
    CASE p = AWSProvider     -> AWSValidateTagKey(key)
      [] p = AzureProvider   -> AzureValidateTagKey(key)
      [] p = GCPProvider     -> GCPValidateTagKey(key)
      [] p = DefaultProvider -> DefaultValidateTagKey(key)

----------------------------------------------------------------------------
(* Repository metadata *)

\* a nil *GitInfo
Nil == [nil |-> TRUE]

\* time.Time{}: before every reading of the clock
ZeroTime == -1

\* gitCacheTTL, in minutes
gitCacheTTL == 5

GitInfo(url, hash) == [RepoURL |-> url, CommitHash |-> hash]

\* strings.TrimSpace
IsSpace(c) == c \in {" ", "\n", "\t", "\r"}

RECURSIVE TrimLeft(_)
TrimLeft(s) == IF s # <<>> /\ IsSpace(Head(s)) THEN TrimLeft(Tail(s)) ELSE s

RECURSIVE TrimRight(_)
TrimRight(s) ==
    IF s # <<>> /\ IsSpace(s[Len(s)]) THEN TrimRight(SubSeq(s, 1, Len(s) - 1)) ELSE s

TrimSpace(s) == TrimRight(TrimLeft(s))

\* strings.TrimPrefix / strings.TrimSuffix
TrimPrefix(s, p) == IF HasPrefix(s, p) THEN SubSeq(s, Len(p) + 1, Len(s)) ELSE s

TrimSuffix(s, p) == IF HasSuffix(s, p) THEN SubSeq(s, 1, Len(s) - Len(p)) ELSE s

\* strings.Replace(s, ":", "/", -1)
ReplaceEveryColon(s) == [i \in 1..Len(s) |-> IF s[i] = ":" THEN "/" ELSE s[i]]

\* strings.Replace(s, ":", "/", 1)
ReplaceFirstColon(s) ==
    [i \in 1..Len(s) |->
        IF s[i] = ":" /\ \A j \in 1..(i - 1) : s[j] # ":" THEN "/" ELSE s[i]]

convertSSHToHTTPS(url) ==
    IF HasPrefix(url, <<"g","i","t","@">>)
    THEN TrimSuffix(<<"h","t","t","p","s",":","/","/">> \o ReplaceFirstColon(TrimPrefix(url, <<"g","i","t","@">>)), <<".","g","i","t">>)
    ELSE IF HasPrefix(url, <<"s","s","h",":","/","/">>)
    THEN TrimSuffix(<<"h","t","t","p","s",":","/","/">>
                    \o ReplaceFirstColon(TrimPrefix(TrimPrefix(url, <<"s","s","h",":","/","/">>), <<"g","i","t","@">>)),
                    <<".","g","i","t">>)
    ELSE TrimSuffix(url, <<".","g","i","t">>)

\* a freshness test that forgets the age
cacheFreshAnyAge(cache, cacheTime, t) == cache # Nil

\* gitCache != nil && time.Since(gitCacheTime) < gitCacheTTL
cacheFresh(cache, cacheTime, t) ==
    cache # Nil /\ cacheTime # ZeroTime /\ t - cacheTime < gitCacheTTL

\* no second look at the cache once the exclusive lock is held
recheckSkipped(cache, cacheTime, t) == FALSE

\* the same test, made again under the exclusive lock
recheckFresh(cache, cacheTime, t) == cacheFresh(cache, cacheTime, t)

\* info.RepoURL after git config --get remote.origin.url answered
queryRepoURL(env) == IF env.urlOk THEN convertSSHToHTTPS(TrimSpace(env.url)) ELSE <<>>

\* the output of git rev-parse HEAD taken whether or not the command failed
queryCommitHashAnyway(env) == TrimSpace(env.hash)

\* info.CommitHash after git rev-parse HEAD answered
queryCommitHash(env) == IF env.hashOk THEN TrimSpace(env.hash) ELSE <<>>

\* the GitInfo the refresh path builds from the answers of the two commands
fetchGitInfo(env) == GitInfo(queryRepoURL(env), queryCommitHash(env))

\* GetGitInfo run by a single caller with nobody else in between: the value it
\* returns and the cache it leaves
getGitInfoAlone(cache, cacheTime, t, env) ==
    IF cacheFresh(cache, cacheTime, t)
    THEN [info |-> cache, err |-> "", cache |-> cache, cacheTime |-> cacheTime]
    ELSE [info |-> fetchGitInfo(env), err |-> "",
          cache |-> fetchGitInfo(env), cacheTime |-> t]

----------------------------------------------------------------------------
(* Tag assembly *)

\* the tag keys Process and ProcessDataTags write
TagKey ==
    [environment |-> <<"e","n","v","i","r","o","n","m","e","n","t">>,
     availability |-> <<"a","v","a","i","l","a","b","i","l","i","t","y">>,
     managedby |-> <<"m","a","n","a","g","e","d","b","y">>,
     deletiondate |-> <<"d","e","l","e","t","i","o","n","d","a","t","e">>,
     costcenter |-> <<"c","o","s","t","c","e","n","t","e","r">>,
     projectmgmtid |-> <<"p","r","o","j","e","c","t","m","g","m","t","i","d">>,
     systemid |-> <<"s","y","s","t","e","m","i","d">>,
     componentid |-> <<"c","o","m","p","o","n","e","n","t","i","d">>,
     instanceid |-> <<"i","n","s","t","a","n","c","e","i","d">>,
     productowners |-> <<"p","r","o","d","u","c","t","o","w","n","e","r","s">>,
     codeowners |-> <<"c","o","d","e","o","w","n","e","r","s">>,
     securityreview |-> <<"s","e","c","u","r","i","t","y","r","e","v","i","e","w">>,
     privacyreview |-> <<"p","r","i","v","a","c","y","r","e","v","i","e","w">>,
     sourcerepo |-> <<"s","o","u","r","c","e","r","e","p","o">>,
     sourcecommit |-> <<"s","o","u","r","c","e","c","o","m","m","i","t">>,
     sensitivity |-> <<"s","e","n","s","i","t","i","v","i","t","y">>,
     dataregulations |-> <<"d","a","t","a","r","e","g","u","l","a","t","i","o","n","s">>,
     dataowners |-> <<"d","a","t","a","o","w","n","e","r","s">>]

\* make(map[string]string)
EmptyTags == [k \in {} |-> <<>>]

\* tags[key] = value
Put(tags, key, value) ==
    [k \in DOMAIN tags \cup {key} |-> IF k = key THEN value ELSE tags[k]]

\* a merge in which the destination's own keys are kept
MapsCopyKeepDst(dst, src) ==
    [k \in DOMAIN dst \cup DOMAIN src |-> IF k \in DOMAIN dst THEN dst[k] ELSE src[k]]

\* maps.Copy(dst, src)
MapsCopy(dst, src) ==
    [k \in DOMAIN dst \cup DOMAIN src |-> IF k \in DOMAIN src THEN src[k] ELSE dst[k]]

\* strings.Join(elems, sep)
RECURSIVE Join(_, _)
Join(elems, sep) ==
    IF Len(elems) = 0 THEN <<>>
    ELSE IF Len(elems) = 1 THEN elems[1]
    ELSE elems[1] \o sep \o Join(Tail(elems), sep)

\* an addTag that sets an empty field's key to the empty value
addTagEmptyValue(cfg, tags, key, value, naValue) ==
    IF cfg.NotApplicableEnabled /\ value = <<>> THEN Put(tags, key, naValue)
    ELSE Put(tags, key, value)

addTag(cfg, tags, key, value, naValue) ==
    IF value # <<>> THEN Put(tags, key, value)
    ELSE IF cfg.NotApplicableEnabled THEN Put(tags, key, naValue)
    ELSE tags

\* the owner-list pattern: joined when non-empty, N/A or nothing when empty
addList(cfg, tags, key, elems, delimiter, naValue) ==
    IF Len(elems) > 0 THEN Put(tags, key, Join(elems, delimiter))
    ELSE IF cfg.NotApplicableEnabled THEN Put(tags, key, naValue)
    ELSE tags

\* Process, lines 81-86
addProjectMgmt(cfg, tags, delimiter, naValue) ==
    IF cfg.SystemPrefixesEnabled /\ cfg.PMPlatform # <<>> /\ cfg.PMProjectCode # <<>>
    THEN Put(tags, TagKey.projectmgmtid, cfg.PMPlatform \o delimiter \o cfg.PMProjectCode)
    ELSE addTag(cfg, tags, TagKey.projectmgmtid, cfg.PMProjectCode, naValue)

\* one sub-id of the prefixed ITSM branch: set when present, nothing otherwise
addPrefixed(cfg, tags, key, id, delimiter) ==
    IF id # <<>> THEN Put(tags, key, cfg.ITSMPlatform \o delimiter \o id) ELSE tags

\* Process, lines 88-103
addITSM(cfg, tags, delimiter, naValue) ==
    IF cfg.SystemPrefixesEnabled /\ cfg.ITSMPlatform # <<>>
    THEN LET t1 == addPrefixed(cfg, tags, TagKey.systemid, cfg.ITSMSystemID, delimiter)
             t2 == addPrefixed(cfg, t1, TagKey.componentid, cfg.ITSMComponentID, delimiter)
         IN  addPrefixed(cfg, t2, TagKey.instanceid, cfg.ITSMInstanceID, delimiter)
    ELSE LET t1 == addTag(cfg, tags, TagKey.systemid, cfg.ITSMSystemID, naValue)
             t2 == addTag(cfg, t1, TagKey.componentid, cfg.ITSMComponentID, naValue)
         IN  addTag(cfg, t2, TagKey.instanceid, cfg.ITSMInstanceID, naValue)

\* Process, lines 105-118
addOwners(cfg, tags, delimiter, naValue) ==
    IF cfg.OwnerTagsEnabled
    THEN LET t1 == addList(cfg, tags, TagKey.productowners, cfg.ProductOwners, delimiter, naValue)
         IN  addList(cfg, t1, TagKey.codeowners, cfg.CodeOwners, delimiter, naValue)
    ELSE tags

\* repository tags added whatever the toggle says
addGitAlways(cfg, tags, got, naValue) ==
    IF got.err = "" /\ got.info # Nil
    THEN LET t1 == addTag(cfg, tags, TagKey.sourcerepo, got.info.RepoURL, naValue)
         IN  addTag(cfg, t1, TagKey.sourcecommit, got.info.CommitHash, naValue)
    ELSE LET t1 == addTag(cfg, tags, TagKey.sourcerepo, <<>>, naValue)
         IN  addTag(cfg, t1, TagKey.sourcecommit, <<>>, naValue)

\* Process, lines 124-131, given what GetGitInfo returned
addGit(cfg, tags, got, naValue) ==
    IF cfg.SourceRepoTagsEnabled /\ got.err = "" /\ got.info # Nil
    THEN LET t1 == addTag(cfg, tags, TagKey.sourcerepo, got.info.RepoURL, naValue)
         IN  addTag(cfg, t1, TagKey.sourcecommit, got.info.CommitHash, naValue)
    ELSE tags

\* the tags map of Process before the additional tags are merged in
processComputed(p, cfg, got) ==
    LET delimiter == GetDelimiter(p)
        naValue   == GetNAValue(p)
        t1  == addTag(cfg, EmptyTags, TagKey.environment, cfg.EnvironmentName, naValue)
        t2  == addTag(cfg, t1, TagKey.availability, cfg.Availability, naValue)
        t3  == addTag(cfg, t2, TagKey.managedby, cfg.ManagedBy, naValue)
        t4  == addTag(cfg, t3, TagKey.deletiondate, cfg.DeletionDate, naValue)
        t5  == addTag(cfg, t4, TagKey.costcenter, cfg.CostCenter, naValue)
        t6  == addProjectMgmt(cfg, t5, delimiter, naValue)
        t7  == addITSM(cfg, t6, delimiter, naValue)
        t8  == addOwners(cfg, t7, delimiter, naValue)
        t9  == addTag(cfg, t8, TagKey.securityreview, cfg.SecurityReview, naValue)
        t10 == addTag(cfg, t9, TagKey.privacyreview, cfg.PrivacyReview, naValue)
    IN  addGit(cfg, t10, got, naValue)

\* the tags map of Process when the prefix loop starts
processAssembled(p, cfg, got) == MapsCopy(processComputed(p, cfg, got), cfg.AdditionalTags)

\* the tags map of ProcessDataTags before the additional data tags are merged in
dataComputed(p, cfg) ==
    LET delimiter == GetDelimiter(p)
        naValue   == GetNAValue(p)
        t1 == addTag(cfg, EmptyTags, TagKey.sensitivity, cfg.Sensitivity, naValue)
        t2 == addList(cfg, t1, TagKey.dataregulations, cfg.DataRegs, delimiter, naValue)
    IN  IF cfg.OwnerTagsEnabled /\ Len(cfg.DataOwners) > 0
        THEN Put(t2, TagKey.dataowners, Join(cfg.DataOwners, delimiter))
        ELSE IF cfg.NotApplicableEnabled THEN Put(t2, TagKey.dataowners, naValue)
        ELSE t2

dataAssembled(p, cfg) == MapsCopy(dataComputed(p, cfg), cfg.AdditionalDataTags)

\* no cut at all
truncateValueNever(p, value) == value

\* value[:maxLen] when longer
truncateValue(p, value) ==
    IF Len(value) > GetMaxTagLength(p) THEN SubSeq(value, 1, GetMaxTagLength(p)) ELSE value

\* the loop that prefixes every key and sanitizes and truncates every value
prefixAndSanitize(p, prefix, tags) ==
    [key \in {prefix \o k : k \in DOMAIN tags} |->
        truncateValue(p, SanitizeTagValue(p, tags[SubSeq(key, Len(prefix) + 1, Len(key))]))]

ProcessResult(p, prefix, cfg, got) ==
    [tags |-> prefixAndSanitize(p, prefix, processAssembled(p, cfg, got)), err |-> ""]

ProcessDataTagsResult(p, prefix, cfg) ==
    [tags |-> prefixAndSanitize(p, prefix, dataAssembled(p, cfg)), err |-> ""]

----------------------------------------------------------------------------
(* Ephemeral environments *)

MinutesPerDay == 24 * 60

\* 90*24*time.Hour, in minutes
EphemeralLifetime == 90 * 24 * 60

DecimalDigits == <<"0", "1", "2", "3", "4", "5", "6", "7", "8", "9">>

\* n in decimal, zero-padded to width digits
RECURSIVE Padded(_, _)
Padded(n, width) ==
    IF width = 0 THEN <<>>
    ELSE Padded(n \div 10, width - 1) \o <<DecimalDigits[(n % 10) + 1]>>

\* the civil date of day number z, days counted from 1970-01-01
CivilFromDays(z) ==
    LET s    == z + 719468
        era  == s \div 146097
        doe  == s - era * 146097
        yoe  == (doe - doe \div 1460 + doe \div 36524 - doe \div 146096) \div 365
        doy  == doe - (365 * yoe + yoe \div 4 - yoe \div 100)
        mp   == (5 * doy + 2) \div 153
        d    == doy - (153 * mp + 2) \div 5 + 1
        m    == IF mp < 10 THEN mp + 3 ELSE mp - 9
    IN  [year |-> yoe + era * 400 + (IF m <= 2 THEN 1 ELSE 0), month |-> m, day |-> d]

\* t.Format("2006-01-02") for the instant t, minutes counted from 1970-01-01
\* 00:00 in the clock's zone
FormatDate(t) ==
    LET date == CivilFromDays(t \div MinutesPerDay)
    IN  Padded(date.year, 4) \o <<"-">> \o Padded(date.month, 2) \o <<"-">>
            \o Padded(date.day, 2)

EphemeralType == <<"E","p","h","e","m","e","r","a","l">>

\* the function as design.md gives it, without the test for a set deletion date
ProcessEphemeralEnvironmentAlways(cfg, t) ==
    IF cfg.EnvironmentType = EphemeralType
    THEN [cfg EXCEPT !.DeletionDate = FormatDate(t + EphemeralLifetime)]
    ELSE cfg

\* the configuration after ProcessEphemeralEnvironment(config) run at instant t
ProcessEphemeralEnvironment(cfg, t) ==
    IF cfg.EnvironmentType = EphemeralType /\ cfg.DeletionDate = <<>>
    THEN [cfg EXCEPT !.DeletionDate = FormatDate(t + EphemeralLifetime)]
    ELSE cfg

----------------------------------------------------------------------------
(* Field validators *)

MaxNamespaceLength == 8

\* the {0,6} of namespaceRegex and environmentRegex
ShortNameMiddleMax == 6

\* namespaceRegex, environmentRegex: ^[a-z][a-z0-9-]{0,6}[a-z0-9]$|^[a-z]$
shortNameRegex(s) ==
    \/ /\ Len(s) >= 2
       /\ Len(s) - 2 <= ShortNameMiddleMax
       /\ IsLower(s[1])
       /\ \A i \in 2..(Len(s) - 1) : IsLower(s[i]) \/ IsDigit(s[i]) \/ s[i] = "-"
       /\ IsLower(s[Len(s)]) \/ IsDigit(s[Len(s)])
    \/ Len(s) = 1 /\ IsLower(s[1])

\* ValidateNamespace(namespace) = nil; ValidateEnvironment is the same function
ValidateNamespace(namespace) ==
    \/ namespace = <<>>
    \/ Len(namespace) <= MaxNamespaceLength /\ shortNameRegex(namespace)

ValidateEnvironment(environment) ==
    \/ environment = <<>>
    \/ Len(environment) <= MaxNamespaceLength /\ shortNameRegex(environment)

ValidEnvironmentTypes ==
    {<<>>, <<"N","o","n","e">>, <<"E","p","h","e","m","e","r","a","l">>, <<"D","e","v","e","l","o","p","m","e","n","t">>, <<"T","e","s","t","i","n","g">>, <<"U","A","T">>,
     <<"P","r","o","d","u","c","t","i","o","n">>, <<"M","i","s","s","i","o","n","C","r","i","t","i","c","a","l">>}

ValidAvailabilityLevels ==
    {<<>>, <<"p","r","e","e","m","p","t","a","b","l","e">>, <<"s","p","o","t">>, <<"s","t","a","n","d","a","r","d">>, <<"d","e","d","i","c","a","t","e","d">>, <<"i","s","o","l","a","t","e","d">>}

ValidSensitivityLevels ==
    {<<>>, <<"p","u","b","l","i","c">>, <<"i","n","t","e","r","n","a","l">>, <<"c","o","n","f","i","d","e","n","t","i","a","l">>, <<"r","e","s","t","r","i","c","t","e","d">>, <<"c","r","i","t","i","c","a","l">>}

ValidateEnvironmentType(envType) == envType \in ValidEnvironmentTypes

ValidateAvailability(availability) == availability \in ValidAvailabilityLevels

ValidateSensitivity(sensitivity) == sensitivity \in ValidSensitivityLevels

\* dateRegex: ^\d{4}-\d{2}-\d{2}$
dateRegex(s) ==
    /\ Len(s) = 10
    /\ \A i \in {1, 2, 3, 4, 6, 7, 9, 10} : IsDigit(s[i])
    /\ s[5] = "-"
    /\ s[8] = "-"

\* the number a run of decimal digits writes
RECURSIVE Atoi(_)
Atoi(s) ==
    IF s = <<>> THEN 0
    ELSE 10 * Atoi(SubSeq(s, 1, Len(s) - 1))
            + (CHOOSE n \in 0..9 : DecimalDigits[n + 1] = s[Len(s)])

isLeap(year) == year % 4 = 0 /\ (year % 100 # 0 \/ year % 400 = 0)

daysIn(month, year) ==
    IF month = 2 THEN (IF isLeap(year) THEN 29 ELSE 28)
    ELSE IF month \in {4, 6, 9, 11} THEN 30
    ELSE 31

\* time.Parse("2006-01-02", date) returns no error, for a date dateRegex matches
timeParseDate(s) ==
    LET year  == Atoi(SubSeq(s, 1, 4))
        month == Atoi(SubSeq(s, 6, 7))
        day   == Atoi(SubSeq(s, 9, 10))
    IN  /\ month \in 1..12
        /\ day >= 1
        /\ day <= daysIn(month, year)

ValidateDeletionDate(date) ==
    \/ date = <<>>
    \/ dateRegex(date) /\ timeParseDate(date)

IsLetter(c) == IsLower(c) \/ IsUpper(c)

\* [a-zA-Z0-9._%+-]
IsEmailLocalChar(c) == IsLetter(c) \/ IsDigit(c) \/ c \in {".", "_", "%", "+", "-"}

\* [a-zA-Z0-9.-]
IsEmailDomainChar(c) == IsLetter(c) \/ IsDigit(c) \/ c \in {".", "-"}

\* emailRegex: ^[a-zA-Z0-9._%+-]+@[a-zA-Z0-9.-]+\.[a-zA-Z]{2,}$
emailRegex(s) ==
    \E at \in 2..Len(s), dot \in 4..Len(s) :
        /\ s[at] = "@"
        /\ s[dot] = "."
        /\ at + 1 < dot
        /\ dot + 2 <= Len(s)
        /\ \A i \in 1..(at - 1) : IsEmailLocalChar(s[i])
        /\ \A i \in (at + 1)..(dot - 1) : IsEmailDomainChar(s[i])
        /\ \A i \in (dot + 1)..Len(s) : IsLetter(s[i])

ValidateEmail(email) == email = <<>> \/ emailRegex(email)

ValidateEmails(emails) == \A i \in 1..Len(emails) : ValidateEmail(emails[i])

\* the checks of Read in their order: the summary of the error and whether the
\* check fails
validationChecks(cfg) ==
    <<[summary |-> "Invalid namespace", fails |-> ~ValidateNamespace(cfg.Namespace)],
      [summary |-> "Invalid environment", fails |-> ~ValidateEnvironment(cfg.Environment)],
      [summary |-> "Invalid environment_type",
       fails |-> ~ValidateEnvironmentType(cfg.EnvironmentType)],
      [summary |-> "Invalid availability", fails |-> ~ValidateAvailability(cfg.Availability)],
      [summary |-> "Invalid sensitivity", fails |-> ~ValidateSensitivity(cfg.Sensitivity)],
      [summary |-> "Invalid deletion_date",
       fails |-> ~ValidateDeletionDate(cfg.DeletionDate)],
      [summary |-> "Invalid product_owners", fails |-> ~ValidateEmails(cfg.ProductOwners)],
      [summary |-> "Invalid code_owners", fails |-> ~ValidateEmails(cfg.CodeOwners)],
      [summary |-> "Invalid data_owners", fails |-> ~ValidateEmails(cfg.DataOwners)]>>

\* every failing check adding its error
RECURSIVE errorsOfAll(_)
errorsOfAll(checks) ==
    IF checks = <<>> THEN <<>>
    ELSE (IF Head(checks).fails THEN <<Head(checks).summary>> ELSE <<>>)
            \o errorsOfAll(Tail(checks))

\* the first failing check adding its error, the later ones not reached
RECURSIVE errorOfFirst(_)
errorOfFirst(checks) ==
    IF checks = <<>> THEN <<>>
    ELSE IF Head(checks).fails THEN <<Head(checks).summary>>
    ELSE errorOfFirst(Tail(checks))

\* the validation of Read with the returns left out
validationErrorsNoReturn(cfg) == errorsOfAll(validationChecks(cfg))

\* resp.Diagnostics after the validation of Read: each failing check adds its
\* error and returns
validationErrors(cfg) == errorOfFirst(validationChecks(cfg))

----------------------------------------------------------------------------
(* Output formatters *)

\* the characters of the model in byte order
AsciiChars ==
    <<"\n", " ", "#", "%", "&", "+", ",", "-", ".", "/">> \o DecimalDigits
        \o <<":", ";", "<", "=", ">", "?", "@">> \o UpperLetters
        \o <<"\\", "_">> \o LowerLetters

Code(c) == CHOOSE i \in 1..Len(AsciiChars) : AsciiChars[i] = c

\* a < b for Go strings: byte by byte, a proper prefix first
StringLess(a, b) ==
    \E i \in 1..(Len(b)) :
        /\ \A j \in 1..(i - 1) : j <= Len(a) /\ a[j] = b[j]
        /\ (i > Len(a) \/ (i <= Len(a) /\ Code(a[i]) < Code(b[i])))

\* keys with k put at its place
RECURSIVE InsertSorted(_, _)
InsertSorted(keys, k) ==
    IF keys = <<>> THEN <<k>>
    ELSE IF StringLess(k, Head(keys)) THEN <<k>> \o keys
    ELSE <<Head(keys)>> \o InsertSorted(Tail(keys), k)

\* sort.Strings(keys)
RECURSIVE SortStrings(_)
SortStrings(keys) ==
    IF keys = <<>> THEN <<>> ELSE InsertSorted(SortStrings(Tail(keys)), Head(keys))

\* the keys slice left as the range loop filled it
sortedKeysAsMet(order) == order

\* the keys slice after the range loop met the keys in the given order and
\* sort.Strings ran
sortedKeys(order) == SortStrings(order)

\* ConvertTagsToListOfMaps, the range loop meeting the keys in the given order
ConvertTagsToListOfMaps(tags, order) ==
    LET keys == sortedKeys(order)
    IN  [i \in 1..Len(keys) |-> [key |-> keys[i], value |-> tags[keys[i]]]]

\* ConvertTagsToKVPList, likewise
ConvertTagsToKVPList(tags, order) ==
    LET keys == sortedKeys(order)
    IN  [i \in 1..Len(keys) |-> keys[i] \o <<"=">> \o tags[keys[i]]]

\* ConvertTagsToCommaSeparated, likewise
ConvertTagsToCommaSeparated(tags, order) == Join(ConvertTagsToKVPList(tags, order), <<",">>)

----------------------------------------------------------------------------
(* Inputs *)

\* length of the free-form segment of a generated name
MaxMid == 2

\* length of a tag value handed to the sanitizers
MaxValueLen == 2

\* one character of each class the name rules tell apart: lowercase letter,
\* uppercase letter, digit, hyphen, anything else
NameChars == {"a", "B", "7", "-", "_"}

\* run lengths that put the free-form segment at the start, at the cut
\* positions of the two truncation branches and at the 24-character limit
NameFillLens == {0, 1, 5, 9, 10, 16, 22, 23, 25}

TailFillLens == {0, 3}

GeneratedNames ==
    {Fill(c, n) \o mid \o Fill("a", m) :
        c \in {"a", "-"}, n \in NameFillLens,
        mid \in SeqsUpTo(NameChars, MaxMid), m \in TailFillLens}

TestNames == {<<"v","e","r","y","l","o","n","g","a","p","p","n","a","m","e">>, <<"a","b","c","d","e","f","g","h","i","j","k","l","m","n","o","p">>, <<"a","p","p">>}

Namespaces == {<<>>, <<"a","b">>, <<"A","b">>, <<"a","b","c","d","e","f","g","8">>, <<"v","e","r","y","l","o","n","g","o","r","g">>}

Environments == {<<>>, <<"c","d">>, <<"e","n","v","e","n","v","-","1">>, <<"p","r","o","d","u","c","t","i","o","n">>}

NameGeneratorInputs ==
    {[Namespace |-> n, Name |-> m, Environment |-> e] :
        n \in Namespaces, m \in GeneratedNames \cup TestNames, e \in Environments}

\* the cases of TestNameGenerator_Generate that are not in the sets above
TestInputs ==
    {[Namespace |-> <<"M","y","O","r","g">>, Name |-> <<"M","y","A","p","p">>, Environment |-> <<"P","R","O","D">>],
     [Namespace |-> <<"m","y","o","r","g">>, Name |-> <<"v","e","r","y","l","o","n","g","a","p","p","n","a","m","e">>, Environment |-> <<"p","r","o","d">>]}

ProviderIds == {"dc", "aws", "az", "gcp", "oci", "", "azure", "AWS"}

TagChars ==
    {"a", "Z", "7", " ", "\\", ".", ":", "=", "+", "@", "_", "/", "-",
     "<", ">", "%", "&", "?", "#", "$"}

TagValues == SeqsUpTo(TagChars, MaxValueLen)

NoProviderConfig == [CloudProvider |-> "none", TagPrefix |-> <<>>]

NoState == [set |-> FALSE]

ReadIdle ==
    /\ providerConfig = NoProviderConfig
    /\ readPc = "idle"
    /\ diagnostics = <<>>
    /\ stateOut = NoState

NoResult == [called |-> FALSE, value |-> <<>>, err |-> ""]

NoValue == [called |-> FALSE, value |-> <<>>]

UrlIdle ==
    /\ urlIn = <<>>
    /\ urlOut = NoValue

NoNameGenerator == [Namespace |-> <<>>, Name |-> <<>>, Environment |-> <<>>]

\* the components a specification does not exercise stay as constructed
NamingIdle == ng = NoNameGenerator /\ genOut = NoResult /\ truncOut = NoValue

CloudIdle ==
    /\ providerId = ""
    /\ tagValue = <<>>
    /\ cp = "none"
    /\ sanitized = NoValue
    /\ resanitized = NoValue

\* the data-source configurations the tag processor is run on

MaxOwners == 2

OwnerDigits == <<"1", "2", "3", "4">>

Owner(i) == <<"o", OwnerDigits[i]>> \o <<"@","x",".","i","o">>

Regulation(i) == <<"R", OwnerDigits[i]>>

\* a value longer than every provider's limit, with characters the providers
\* treat differently at and after position 63
LongValue == Fill("x", 62) \o <<"<","Y"," ">>\o Fill("z", 196)

\* every field set; n is the length of the four lists
FullConfig(n) ==
    [Namespace |-> <<"o","r","g">>, Name |-> <<"a","p","p">>, Environment |-> <<"p","r","o","d">>,
     EnvironmentName |-> <<"P","r","o","d","u","c","t","i","o","n">>, EnvironmentType |-> <<"P","r","o","d","u","c","t","i","o","n">>,
     Enabled |-> TRUE,
     Availability |-> <<"d","e","d","i","c","a","t","e","d">>, ManagedBy |-> <<"t","e","r","r","a","f","o","r","m">>,
     DeletionDate |-> <<"2","0","2","6","-","0","1","-","3","1">>, CostCenter |-> <<"C","C"," ","4","2">>,
     PMPlatform |-> <<"J","I","R","A">>, PMProjectCode |-> <<"P","R","J","-","1">>,
     ITSMPlatform |-> <<"S","N","O","W">>, ITSMSystemID |-> <<"s","y","s","1">>,
     ITSMComponentID |-> <<"c","m","p","<","2",">">>, ITSMInstanceID |-> <<"i","3">>,
     ProductOwners |-> [i \in 1..n |-> Owner(i)],
     CodeOwners |-> [i \in 1..n |-> Owner(i)],
     DataOwners |-> [i \in 1..n |-> Owner(i)],
     DataRegs |-> [i \in 1..n |-> Regulation(i)],
     Sensitivity |-> <<"c","o","n","f","i","d","e","n","t","i","a","l">>,
     SecurityReview |-> <<"2","0","2","5","-","0","6","-","0","1">>, PrivacyReview |-> <<"2","0","2","5","-","0","7","-","0","1">>]

\* the fields a caller may leave empty
OptionalFields ==
    {"EnvironmentName", "Availability", "ManagedBy", "DeletionDate", "CostCenter",
     "PMPlatform", "PMProjectCode", "ITSMPlatform", "ITSMSystemID", "ITSMComponentID",
     "ITSMInstanceID", "ProductOwners", "CodeOwners", "DataOwners", "DataRegs",
     "Sensitivity", "SecurityReview", "PrivacyReview"}

\* which fields are left empty: none, one, all but one, all
EmptiedSets ==
    {{}, OptionalFields}
        \cup {{f} : f \in OptionalFields}
        \cup {OptionalFields \ {f} : f \in OptionalFields}

Emptied(cfg, E) == [f \in DOMAIN cfg |-> IF f \in E THEN <<>> ELSE cfg[f]]

\* tag prefix with additional tags and additional data tags: nothing; keys that
\* collide with computed ones; values longer than the limits; a prefix and keys
\* with characters outside the lowercase letters
TagOptions ==
    {[TagPrefix |-> <<>>, AdditionalTags |-> EmptyTags, AdditionalDataTags |-> EmptyTags],
     [TagPrefix |-> <<"b","c","-">>,
      AdditionalTags |-> (TagKey.environment :> <<>> @@ TagKey.sourcerepo :> <<"x","<","y">>
                          @@ TagKey.systemid :> <<"S"," ","1">> @@ <<"t","e","a","m">> :> <<"A"," ","<","b",">">>),
      AdditionalDataTags |-> (TagKey.sensitivity :> <<>> @@ TagKey.dataowners :> <<"o">>)],
     [TagPrefix |-> <<"t","e","s","t","-">>,
      AdditionalTags |-> (<<"t","e","a","m">> :> LongValue),
      AdditionalDataTags |-> (<<"n","o","t","e">> :> LongValue)],
     [TagPrefix |-> <<"B","c",":">>,
      AdditionalTags |-> (<<"c","o","s","t"," ","c","e","n","t","e","r">> :> <<"4","2">> @@ <<"t","e","a","m","/","a">> :> <<"x">> @@ <<"a","@","b">> :> <<"y">>),
      AdditionalDataTags |-> (<<"d","a","t","a"," ","s","e","t">> :> <<"z">> @@ <<"t","e","a","m","/","a">> :> <<"x">> @@ <<"a","@","b">> :> <<"y">>)]}

Booleans == {TRUE, FALSE}

Toggles ==
    [SourceRepoTagsEnabled : Booleans, SystemPrefixesEnabled : Booleans,
     NotApplicableEnabled : Booleans, OwnerTagsEnabled : Booleans]

\* what the two git commands answer: outside a repository both fail
NoContext == [urlOk |-> FALSE, url |-> <<>>, hashOk |-> FALSE, hash |-> <<>>]

InRepository ==
    [urlOk |-> TRUE, url |-> <<"g","i","t","@","h",".","i","o",":","u","/","r",".","g","i","t","\n">>,
     hashOk |-> TRUE, hash |-> <<"a","b","c","1","2","3","\n">>]

GitEnvs == {NoContext, InRepository}

NoTagProcessor == [CloudProvider |-> "none", TagPrefix |-> <<>>]

NoConfig == [Enabled |-> FALSE]

NoTagsResult == [called |-> FALSE, tags |-> EmptyTags, err |-> ""]

TagsIdle ==
    /\ tp = NoTagProcessor
    /\ config = NoConfig
    /\ ephemeralDone = FALSE
    /\ tagsOut = NoTagsResult
    /\ dataTagsOut = NoTagsResult

GitIdle ==
    /\ gitCache = Nil
    /\ gitCacheTime = ZeroTime
    /\ now = 0
    /\ gitEnv = NoContext

\* the same repository after a commit, its remote given as an HTTPS URL
AfterCommit ==
    [urlOk |-> TRUE, url |-> <<"h","t","t","p","s",":","/","/","h",".","i","o","/","u","/","r",".","g","i","t","\n">>,
     hashOk |-> TRUE, hash |-> <<"d","e","f","4","5","6","\n">>]

\* a repository with a remote and no commit: git rev-parse HEAD fails, having
\* written HEAD to its output
NoCommits ==
    [urlOk |-> TRUE, url |-> <<"g","i","t","@","h",".","i","o",":","u","/","r",".","g","i","t","\n">>,
     hashOk |-> FALSE, hash |-> <<"H","E","A","D","\n">>]

\* the states the repository goes through while the provider runs: no
\* repository yet, a repository with a remote and no commit, with a commit,
\* the same after another commit
RepositoryHistory == <<NoContext, NoCommits, InRepository, AfterCommit>>

RepositoryStates == {RepositoryHistory[i] : i \in DOMAIN RepositoryHistory}

\* how long the clock is followed, in minutes
MaxTime == 6

\* the callers of GetGitInfo
NumCallers == 2

Callers == 1..NumCallers

CallersIdle ==
    /\ pc = [c \in Callers |-> "idle"]
    /\ local = [c \in Callers |-> GitInfo(<<>>, <<>>)]
    /\ ret = [c \in Callers |-> Nil]
    /\ ran = [c \in Callers |-> FALSE]
    /\ startKind = [c \in Callers |-> "none"]
    /\ disturbed = [c \in Callers |-> FALSE]
    /\ retErr = [c \in Callers |-> "none"]
    /\ cleared = FALSE
    /\ clearPc = "idle"
    /\ cacheOwner = 0

\* the day number of a civil date, days counted from 1970-01-01
DaysFromCivil(y, m, d) ==
    LET yy  == IF m <= 2 THEN y - 1 ELSE y
        era == yy \div 400
        yoe == yy - era * 400
        doy == (153 * (IF m > 2 THEN m - 3 ELSE m + 9) + 2) \div 5 + d - 1
        doe == yoe * 365 + yoe \div 4 - yoe \div 100 + doy
    IN  era * 146097 + doe - 719468

\* the instants ProcessEphemeralEnvironment is run at: the first and the last
\* minute of a few days in a row, 90 days before the end of a leap February,
\* of a year, of a century, and on an ordinary day
MaxDayOffset == 2

FirstDays ==
    {DaysFromCivil(2023, 12, 1), DaysFromCivil(2024, 10, 2),
     DaysFromCivil(1999, 10, 2), DaysFromCivil(2026, 11, 3)}

Instants ==
    {(first + k) * MinutesPerDay + m :
        first \in FirstDays, k \in 0..MaxDayOffset, m \in {0, MinutesPerDay - 1}}

EnvironmentTypes == {EphemeralType, <<"e","p","h","e","m","e","r","a","l">>, <<"P","r","o","d","u","c","t","i","o","n">>, <<>>}

DeletionDates == {<<>>, <<"2","0","2","6","-","0","1","-","3","1">>, <<"n","e","v","e","r">>}

NoToggles ==
    [SourceRepoTagsEnabled |-> FALSE, SystemPrefixesEnabled |-> FALSE,
     NotApplicableEnabled |-> FALSE, OwnerTagsEnabled |-> FALSE,
     AdditionalTags |-> EmptyTags, AdditionalDataTags |-> EmptyTags]

\* the tag sets handed to the formatters: at most MaxTags keys
MaxTags == 3

FormatKeys == {<<>>, <<"b">>, <<"a">>, <<"B">>, <<"a","b">>, <<"a","-","b">>, <<"a","_">>, <<"a","=","b">>}

FormatValues == {<<>>, <<"v",",","w","=","x">>}

RECURSIVE SubsetsUpTo(_, _)
SubsetsUpTo(S, n) ==
    IF n = 0 THEN {{}}
    ELSE LET smaller == SubsetsUpTo(S, n - 1)
         IN  smaller \cup {T \cup {x} : T \in smaller, x \in S}

FormatTagSets == UNION {[D -> FormatValues] : D \in SubsetsUpTo(FormatKeys, MaxTags)}

\* the orders a range loop over the map can meet its keys in
IterationOrders(tags) ==
    {order \in [1..Cardinality(DOMAIN tags) -> DOMAIN tags] :
        \A i, j \in DOMAIN order : i # j => order[i] # order[j]}

NoOutput == [called |-> FALSE, value |-> <<>>]

FormatIdle ==
    /\ fmtTags = EmptyTags
    /\ iterOrder = <<>>
    /\ listOut = NoOutput
    /\ kvpOut = NoOutput
    /\ csvOut = NoOutput

----------------------------------------------------------------------------
(* Name generation: a NameGenerator is built from its inputs, Generate is called *)

InitNaming ==
    /\ ng \in NameGeneratorInputs \cup TestInputs
    /\ genOut = NoResult
    /\ truncOut = NoValue
    /\ CloudIdle
    /\ TagsIdle
    /\ GitIdle
    /\ CallersIdle
    /\ FormatIdle
    /\ ReadIdle
    /\ UrlIdle

Generate ==
    /\ genOut' = [called |-> TRUE,
                  value  |-> GenerateResult(ng).value,
                  err    |-> GenerateResult(ng).err]
    /\ truncOut' = IF generateTruncates(ng)
                   THEN [called |-> TRUE,
                         value  |-> intelligentTruncate(ng, ToLower(generateJoined(ng)))]
                   ELSE NoValue
    /\ UNCHANGED <<ng, cloudVars, tagVars, gitVars, ephemeralDone, callerVars, formatVars,
                   readVars, urlVars>>

NextNaming == Generate

SpecNaming == InitNaming /\ [][NextNaming]_vars

----------------------------------------------------------------------------
(* Cloud rules: a provider is looked up by identifier, then sanitizes a value *)

InitCloud ==
    /\ providerId \in ProviderIds
    /\ tagValue \in TagValues
    /\ cp = "none"
    /\ sanitized = NoValue
    /\ resanitized = NoValue
    /\ NamingIdle
    /\ TagsIdle
    /\ GitIdle
    /\ CallersIdle
    /\ FormatIdle
    /\ ReadIdle
    /\ UrlIdle

GetCloudProviderCall ==
    /\ cp' = GetCloudProvider(providerId)
    /\ UNCHANGED <<providerId, tagValue, sanitized, resanitized, namingVars, tagVars, gitVars, ephemeralDone, callerVars, formatVars,
                   readVars, urlVars>>

SanitizeTagValueCall ==
    /\ cp \in CloudProviders
    /\ sanitized' = [called |-> TRUE, value |-> SanitizeTagValue(cp, tagValue)]
    /\ UNCHANGED <<providerId, tagValue, cp, resanitized, namingVars, tagVars, gitVars, ephemeralDone, callerVars, formatVars,
                   readVars, urlVars>>

\* a second call, on the value the first call returned
SanitizeAgainCall ==
    /\ cp \in CloudProviders
    /\ sanitized.called
    /\ resanitized' = [called |-> TRUE, value |-> SanitizeTagValue(cp, sanitized.value)]
    /\ UNCHANGED <<providerId, tagValue, cp, sanitized, namingVars, tagVars, gitVars, ephemeralDone, callerVars, formatVars,
                   readVars, urlVars>>

NextCloud == GetCloudProviderCall \/ SanitizeTagValueCall \/ SanitizeAgainCall

SpecCloud == InitCloud /\ [][NextCloud]_vars

----------------------------------------------------------------------------
(* Tags: a TagProcessor is built over a configuration, Process and *)
(* ProcessDataTags are called *)

InitTags ==
    /\ \E o \in TagOptions, n \in 1..MaxOwners, E \in EmptiedSets, t \in Toggles :
          /\ config = Emptied(FullConfig(n), E) @@ t
                        @@ [AdditionalTags |-> o.AdditionalTags,
                            AdditionalDataTags |-> o.AdditionalDataTags]
          /\ \E p \in CloudProviders : tp = [CloudProvider |-> p, TagPrefix |-> o.TagPrefix]
          /\ gitEnv \in IF t.SourceRepoTagsEnabled THEN GitEnvs ELSE {NoContext}
    /\ tagsOut = NoTagsResult
    /\ dataTagsOut = NoTagsResult
    /\ gitCache = Nil
    /\ gitCacheTime = ZeroTime
    /\ now = 0
    /\ ephemeralDone = FALSE
    /\ NamingIdle
    /\ CloudIdle
    /\ CallersIdle
    /\ FormatIdle
    /\ ReadIdle
    /\ UrlIdle

\* Process; GetGitInfo runs inside it when the repository tags are enabled
ProcessCall ==
    /\ ~tagsOut.called
    /\ LET got == IF config.SourceRepoTagsEnabled
                  THEN getGitInfoAlone(gitCache, gitCacheTime, now, gitEnv)
                  ELSE [info |-> Nil, err |-> "", cache |-> gitCache,
                        cacheTime |-> gitCacheTime]
           res == ProcessResult(tp.CloudProvider, tp.TagPrefix, config, got)
       IN  /\ tagsOut' = [called |-> TRUE, tags |-> res.tags, err |-> res.err]
           /\ gitCache' = got.cache
           /\ gitCacheTime' = got.cacheTime
    /\ UNCHANGED <<tp, config, dataTagsOut, now, gitEnv, namingVars, cloudVars,
                   ephemeralDone, callerVars, formatVars,
                   readVars, urlVars>>

ProcessDataTagsCall ==
    /\ ~dataTagsOut.called
    /\ LET res == ProcessDataTagsResult(tp.CloudProvider, tp.TagPrefix, config)
       IN  dataTagsOut' = [called |-> TRUE, tags |-> res.tags, err |-> res.err]
    /\ UNCHANGED <<tp, config, tagsOut, gitVars, namingVars, cloudVars,
                   ephemeralDone, callerVars, formatVars,
                   readVars, urlVars>>

NextTags == ProcessCall \/ ProcessDataTagsCall

SpecTags == InitTags /\ [][NextTags]_vars

----------------------------------------------------------------------------
(* Ephemeral environments: ProcessEphemeralEnvironment is run on a configuration *)

InitEphemeral ==
    /\ \E type \in EnvironmentTypes, date \in DeletionDates :
          config = [FullConfig(1) EXCEPT !.EnvironmentType = type,
                                         !.DeletionDate = date] @@ NoToggles
    /\ now \in Instants
    /\ ephemeralDone = FALSE
    /\ tp = NoTagProcessor
    /\ tagsOut = NoTagsResult
    /\ dataTagsOut = NoTagsResult
    /\ gitCache = Nil
    /\ gitCacheTime = ZeroTime
    /\ gitEnv = NoContext
    /\ NamingIdle
    /\ CloudIdle
    /\ CallersIdle
    /\ FormatIdle
    /\ ReadIdle
    /\ UrlIdle

ProcessEphemeralEnvironmentCall ==
    /\ ~ephemeralDone
    /\ config' = ProcessEphemeralEnvironment(config, now)
    /\ ephemeralDone' = TRUE
    /\ UNCHANGED <<tp, tagsOut, dataTagsOut, gitVars, namingVars, cloudVars, callerVars, formatVars,
                   readVars, urlVars>>

NextEphemeral == ProcessEphemeralEnvironmentCall

SpecEphemeral == InitEphemeral /\ [][NextEphemeral]_vars

----------------------------------------------------------------------------
(* Formatters: a tag set is handed to the three formatters *)

InitFormat ==
    /\ fmtTags \in FormatTagSets
    /\ iterOrder = <<>>
    /\ listOut = NoOutput
    /\ kvpOut = NoOutput
    /\ csvOut = NoOutput
    /\ NamingIdle
    /\ CloudIdle
    /\ TagsIdle
    /\ GitIdle
    /\ CallersIdle
    /\ ReadIdle
    /\ UrlIdle

ConvertTagsToListOfMapsCall ==
    /\ \E order \in IterationOrders(fmtTags) :
          /\ iterOrder' = order
          /\ listOut' = [called |-> TRUE, value |-> ConvertTagsToListOfMaps(fmtTags, order)]
    /\ UNCHANGED <<fmtTags, kvpOut, csvOut, namingVars, cloudVars, tagVars, gitVars,
                   ephemeralDone, callerVars,
                   readVars, urlVars>>

ConvertTagsToKVPListCall ==
    /\ \E order \in IterationOrders(fmtTags) :
          /\ iterOrder' = order
          /\ kvpOut' = [called |-> TRUE, value |-> ConvertTagsToKVPList(fmtTags, order)]
    /\ UNCHANGED <<fmtTags, listOut, csvOut, namingVars, cloudVars, tagVars, gitVars,
                   ephemeralDone, callerVars,
                   readVars, urlVars>>

ConvertTagsToCommaSeparatedCall ==
    /\ \E order \in IterationOrders(fmtTags) :
          /\ iterOrder' = order
          /\ csvOut' = [called |-> TRUE,
                        value |-> ConvertTagsToCommaSeparated(fmtTags, order)]
    /\ UNCHANGED <<fmtTags, listOut, kvpOut, namingVars, cloudVars, tagVars, gitVars,
                   ephemeralDone, callerVars,
                   readVars, urlVars>>

NextFormat ==
    ConvertTagsToListOfMapsCall \/ ConvertTagsToKVPListCall \/ ConvertTagsToCommaSeparatedCall

SpecFormat == InitFormat /\ [][NextFormat]_vars

----------------------------------------------------------------------------
(* Repository metadata cache: callers run GetGitInfo step by step under the *)
(* read-write lock, ClearGitCache runs, the clock advances, the repository *)
(* changes *)

InitGit ==
    /\ gitCache = Nil
    /\ gitCacheTime = ZeroTime
    /\ now = 0
    /\ gitEnv \in RepositoryStates
    /\ CallersIdle
    /\ NamingIdle
    /\ CloudIdle
    /\ TagsIdle
    /\ FormatIdle
    /\ ReadIdle
    /\ UrlIdle

\* the read lock kept until the exclusive lock is taken
readersUntilLock == {c \in Callers : pc[c] \in {"rlocked", "miss"}}

\* who holds gitCacheLock
readers == {c \in Callers : pc[c] = "rlocked"}

writers == {c \in Callers : pc[c] \in {"wlocked", "url", "hash", "store"}}

\* history: a clear, or the cache passing its time to live, counts against
\* every call in progress or returned
Disturb == disturbed' = [c \in Callers |-> disturbed[c] \/ pc[c] # "idle"]

\* a caller enters GetGitInfo
Call(c) ==
    /\ pc[c] = "idle"
    /\ pc' = [pc EXCEPT ![c] = "called"]
    /\ startKind' = [startKind EXCEPT ![c] =
                        IF gitCache = Nil THEN "empty"
                        ELSE IF now - gitCacheTime < gitCacheTTL THEN "fresh"
                        ELSE "expired"]
    /\ UNCHANGED <<local, ret, ran, disturbed, gitVars, namingVars, cloudVars, tagVars,
                   ephemeralDone, formatVars,
                   retErr, cleared, clearPc, cacheOwner,
                   readVars, urlVars>>

\* gitCacheLock.RLock()
RLock(c) ==
    /\ pc[c] = "called"
    /\ writers = {}
    /\ pc' = [pc EXCEPT ![c] = "rlocked"]
    /\ UNCHANGED <<local, ret, ran, startKind, disturbed, gitVars, namingVars, cloudVars,
                   tagVars, ephemeralDone, formatVars,
                   retErr, cleared, clearPc, cacheOwner,
                   readVars, urlVars>>

\* the first test, then RUnlock: a copy of the cache is returned, or the
\* caller goes on to the exclusive lock
ReadCheck(c) ==
    /\ pc[c] = "rlocked"
    /\ IF cacheFresh(gitCache, gitCacheTime, now)
       THEN /\ ret' = [ret EXCEPT ![c] = gitCache]
            /\ retErr' = [retErr EXCEPT ![c] = ""]
            /\ pc' = [pc EXCEPT ![c] = "done"]
       ELSE /\ pc' = [pc EXCEPT ![c] = "miss"]
            /\ UNCHANGED <<ret, retErr>>
    /\ UNCHANGED <<local, ran, startKind, disturbed, gitVars, namingVars, cloudVars,
                   tagVars, ephemeralDone, formatVars,
                   cleared, clearPc, cacheOwner,
                   readVars, urlVars>>

\* gitCacheLock.Lock()
Lock(c) ==
    /\ pc[c] = "miss"
    /\ writers = {}
    /\ readers = {}
    /\ pc' = [pc EXCEPT ![c] = "wlocked"]
    /\ UNCHANGED <<local, ret, ran, startKind, disturbed, gitVars, namingVars, cloudVars,
                   tagVars, ephemeralDone, formatVars,
                   retErr, cleared, clearPc, cacheOwner,
                   readVars, urlVars>>

\* the second test: a copy of the cache is returned and the lock released, or
\* info := &GitInfo{}
Recheck(c) ==
    /\ pc[c] = "wlocked"
    /\ IF recheckFresh(gitCache, gitCacheTime, now)
       THEN /\ ret' = [ret EXCEPT ![c] = gitCache]
            /\ retErr' = [retErr EXCEPT ![c] = ""]
            /\ pc' = [pc EXCEPT ![c] = "done"]
            /\ UNCHANGED local
       ELSE /\ local' = [local EXCEPT ![c] = GitInfo(<<>>, <<>>)]
            /\ pc' = [pc EXCEPT ![c] = "url"]
            /\ UNCHANGED <<ret, retErr>>
    /\ UNCHANGED <<ran, startKind, disturbed, gitVars, namingVars, cloudVars, tagVars,
                   ephemeralDone, formatVars,
                   cleared, clearPc, cacheOwner,
                   readVars, urlVars>>

\* git config --get remote.origin.url
QueryRepoURL(c) ==
    /\ pc[c] = "url"
    /\ local' = [local EXCEPT ![c].RepoURL = queryRepoURL(gitEnv)]
    /\ ran' = [ran EXCEPT ![c] = TRUE]
    /\ pc' = [pc EXCEPT ![c] = "hash"]
    /\ UNCHANGED <<ret, startKind, disturbed, gitVars, namingVars, cloudVars, tagVars,
                   ephemeralDone, formatVars,
                   retErr, cleared, clearPc, cacheOwner,
                   readVars, urlVars>>

\* git rev-parse HEAD
QueryCommitHash(c) ==
    /\ pc[c] = "hash"
    /\ local' = [local EXCEPT ![c].CommitHash = queryCommitHash(gitEnv)]
    /\ pc' = [pc EXCEPT ![c] = "store"]
    /\ UNCHANGED <<ret, ran, startKind, disturbed, gitVars, namingVars, cloudVars, tagVars,
                   ephemeralDone, formatVars,
                   retErr, cleared, clearPc, cacheOwner,
                   readVars, urlVars>>

\* gitCache = info; gitCacheTime = time.Now(); return info; Unlock
Store(c) ==
    /\ pc[c] = "store"
    /\ gitCache' = local[c]
    /\ gitCacheTime' = now
    /\ ret' = [ret EXCEPT ![c] = local[c]]
    /\ retErr' = [retErr EXCEPT ![c] = ""]
    /\ cacheOwner' = c
    /\ cleared' = FALSE
    /\ pc' = [pc EXCEPT ![c] = "done"]
    /\ UNCHANGED <<local, ran, startKind, disturbed, now, gitEnv, namingVars, cloudVars,
                   tagVars, ephemeralDone, formatVars,
                   clearPc,
                   readVars, urlVars>>

\* a caller enters ClearGitCache
ClearCall ==
    /\ clearPc = "idle"
    /\ clearPc' = "waiting"
    /\ UNCHANGED <<pc, local, ret, ran, startKind, disturbed, retErr, cleared, cacheOwner,
                   gitVars, namingVars, cloudVars, tagVars, ephemeralDone, formatVars,
                   readVars, urlVars>>

\* the cache as ClearGitCache leaves it, the time kept
clearedCacheKeepsTime(cache, cacheTime) == [cache |-> Nil, cacheTime |-> cacheTime]

\* gitCache = nil; gitCacheTime = time.Time{}
clearedCache(cache, cacheTime) == [cache |-> Nil, cacheTime |-> ZeroTime]

\* Lock, the two assignments, Unlock
ClearGitCache ==
    /\ clearPc = "waiting"
    /\ writers = {}
    /\ readers = {}
    /\ gitCache' = clearedCache(gitCache, gitCacheTime).cache
    /\ gitCacheTime' = clearedCache(gitCache, gitCacheTime).cacheTime
    /\ cleared' = TRUE
    /\ cacheOwner' = 0
    /\ clearPc' = "idle"
    /\ Disturb
    /\ UNCHANGED <<pc, local, ret, ran, startKind, now, gitEnv, namingVars, cloudVars,
                   tagVars, ephemeralDone, formatVars,
                   retErr,
                   readVars, urlVars>>

\* a minute passes
Tick ==
    /\ now < MaxTime
    /\ now' = now + 1
    /\ IF gitCache # Nil /\ now - gitCacheTime < gitCacheTTL
          /\ ~(now + 1 - gitCacheTime < gitCacheTTL)
       THEN Disturb
       ELSE UNCHANGED disturbed
    /\ UNCHANGED <<pc, local, ret, ran, startKind, gitCache, gitCacheTime, gitEnv,
                   namingVars, cloudVars, tagVars, ephemeralDone, formatVars,
                   retErr, cleared, clearPc, cacheOwner,
                   readVars, urlVars>>

\* the repository changes under the provider
ChangeRepository ==
    /\ \E i, j \in DOMAIN RepositoryHistory :
          /\ i < j
          /\ gitEnv = RepositoryHistory[i]
          /\ gitEnv' = RepositoryHistory[j]
    /\ UNCHANGED <<callerVars, gitCache, gitCacheTime, now, namingVars, cloudVars, tagVars,
                   ephemeralDone, formatVars,
                   readVars, urlVars>>

NextGit ==
    \/ \E c \in Callers :
          \/ Call(c) \/ RLock(c) \/ ReadCheck(c) \/ Lock(c) \/ Recheck(c)
          \/ QueryRepoURL(c) \/ QueryCommitHash(c) \/ Store(c)
    \/ ClearCall
    \/ ClearGitCache
    \/ Tick
    \/ ChangeRepository

SpecGit == InitGit /\ [][NextGit]_vars

----------------------------------------------------------------------------
(* The data source: Read runs over a configuration, from the validation on *)

\* what the provider block configures
ProviderConfigs ==
    {[CloudProvider |-> "", TagPrefix |-> <<>>],
     [CloudProvider |-> "aws", TagPrefix |-> <<"b","c","-">>],
     [CloudProvider |-> "gcp", TagPrefix |-> <<>>]}

\* values that differ from those of FullConfig: valid ones and invalid ones
FieldValues ==
    {[field |-> "Namespace", value |-> <<>>],
     [field |-> "Namespace", value |-> <<"O","r","g">>],
     [field |-> "Namespace", value |-> <<"a","-">>],
     [field |-> "Namespace", value |-> <<"v","e","r","y","l","o","n","g","o","r","g">>],
     [field |-> "Environment", value |-> <<>>],
     [field |-> "Environment", value |-> <<"P","R","O","D">>],
     [field |-> "EnvironmentType", value |-> EphemeralType],
     [field |-> "EnvironmentType", value |-> <<"p","r","o","d">>],
     [field |-> "Availability", value |-> <<>>],
     [field |-> "Availability", value |-> <<"h","i","g","h">>],
     [field |-> "Sensitivity", value |-> <<"s","e","c","r","e","t">>],
     [field |-> "DeletionDate", value |-> <<>>],
     [field |-> "DeletionDate", value |-> <<"n","e","v","e","r">>],
     [field |-> "DeletionDate", value |-> <<"2","0","2","6","-","0","2","-","3","0">>],
     [field |-> "Name", value |-> <<>>],
     [field |-> "Name", value |-> <<"a","_","b">>],
     [field |-> "Name", value |-> <<"v","e","r","y","l","o","n","g","a","p","p","n","a","m","e","v","e","r","y","l","o","n","g">>]}

\* owner lists with an address that is not one
OwnerLists ==
    {[field |-> "ProductOwners", value |-> <<<<"o","1",".","x",".","i","o">>>>],
     [field |-> "CodeOwners", value |-> <<Owner(1), <<"o","2","@","x">>>>],
     [field |-> "DataOwners", value |-> <<<<>>, <<"@","x",".","i","o">>>>]}

\* how many fields of a configuration differ from FullConfig
MaxChanged == 2

\* the changes made to a configuration: to scalar fields and to owner lists
ChangeSets ==
    {D \in SubsetsUpTo(FieldValues, MaxChanged) \X SubsetsUpTo(OwnerLists, MaxChanged) :
        /\ Cardinality(D[1]) + Cardinality(D[2]) <= MaxChanged
        /\ \A d1, d2 \in D[1] : d1.field = d2.field => d1 = d2}

Changed(cfg, D) ==
    [f \in DOMAIN cfg |->
        IF \E d \in D[1] : d.field = f THEN (CHOOSE d \in D[1] : d.field = f).value
        ELSE IF \E d \in D[2] : d.field = f THEN (CHOOSE d \in D[2] : d.field = f).value
        ELSE cfg[f]]

AllToggles ==
    [SourceRepoTagsEnabled |-> TRUE, SystemPrefixesEnabled |-> TRUE,
     NotApplicableEnabled |-> TRUE, OwnerTagsEnabled |-> TRUE]

ReadConfigs ==
    {Changed(FullConfig(1), D) @@ AllToggles
        @@ [AdditionalTags |-> EmptyTags, AdditionalDataTags |-> EmptyTags] :
        D \in ChangeSets}

InitRead ==
    /\ config \in ReadConfigs
    /\ providerConfig \in ProviderConfigs
    /\ readPc = "validation"
    /\ diagnostics = <<>>
    /\ stateOut = NoState
    /\ now = DaysFromCivil(2026, 11, 3) * MinutesPerDay
    /\ gitCache = Nil
    /\ gitCacheTime = ZeroTime
    /\ gitEnv = InRepository
    /\ tp = NoTagProcessor
    /\ tagsOut = NoTagsResult
    /\ dataTagsOut = NoTagsResult
    /\ ephemeralDone = FALSE
    /\ NamingIdle
    /\ CloudIdle
    /\ CallersIdle
    /\ FormatIdle
    /\ UrlIdle

\* the nine checks, each with its AddError and return
ReadValidation ==
    /\ readPc = "validation"
    /\ diagnostics' = validationErrors(config)
    /\ readPc' = IF diagnostics' # <<>> THEN "returned" ELSE "ephemeral"
    /\ UNCHANGED <<providerConfig, stateOut, namingVars, cloudVars, tagVars, gitVars,
                   ephemeralDone, callerVars, formatVars, urlVars>>

\* core.ProcessEphemeralEnvironment(config)
ReadEphemeral ==
    /\ readPc = "ephemeral"
    /\ config' = ProcessEphemeralEnvironment(config, now)
    /\ ephemeralDone' = TRUE
    /\ readPc' = "generate"
    /\ UNCHANGED <<providerConfig, diagnostics, stateOut, tp, tagsOut, dataTagsOut,
                   namingVars, cloudVars, gitVars, callerVars, formatVars, urlVars>>

\* the NameGenerator is built and Generate is called; an error is added and
\* Read returns
ReadGenerate ==
    /\ readPc = "generate"
    /\ ng' = [Namespace |-> config.Namespace, Name |-> config.Name,
              Environment |-> config.Environment]
    /\ genOut' = [called |-> TRUE,
                  value  |-> GenerateResult(ng').value,
                  err    |-> GenerateResult(ng').err]
    /\ truncOut' = IF generateTruncates(ng')
                   THEN [called |-> TRUE,
                         value  |-> intelligentTruncate(ng', ToLower(generateJoined(ng')))]
                   ELSE NoValue
    /\ diagnostics' = IF genOut'.err # "" THEN <<"Failed to generate name prefix">>
                      ELSE diagnostics
    /\ readPc' = IF genOut'.err # "" THEN "returned" ELSE "process"
    /\ UNCHANGED <<providerConfig, stateOut, cloudVars, tagVars, gitVars,
                   ephemeralDone, callerVars, formatVars, urlVars>>

\* the provider is looked up, "dc" standing in for none configured, the
\* TagProcessor is built and Process is called
ReadProcess ==
    /\ readPc = "process"
    /\ providerId' = IF providerConfig.CloudProvider = "" THEN "dc"
                     ELSE providerConfig.CloudProvider
    /\ cp' = GetCloudProvider(providerId')
    /\ tp' = [CloudProvider |-> cp', TagPrefix |-> providerConfig.TagPrefix]
    /\ LET got == IF config.SourceRepoTagsEnabled
                  THEN getGitInfoAlone(gitCache, gitCacheTime, now, gitEnv)
                  ELSE [info |-> Nil, err |-> "", cache |-> gitCache,
                        cacheTime |-> gitCacheTime]
           res == ProcessResult(tp'.CloudProvider, tp'.TagPrefix, config, got)
       IN  /\ tagsOut' = [called |-> TRUE, tags |-> res.tags, err |-> res.err]
           /\ gitCache' = got.cache
           /\ gitCacheTime' = got.cacheTime
           /\ diagnostics' = IF res.err # "" THEN <<"Failed to generate tags">>
                             ELSE diagnostics
           /\ readPc' = IF res.err # "" THEN "returned" ELSE "datatags"
    /\ UNCHANGED <<providerConfig, stateOut, config, dataTagsOut, now, gitEnv,
                   tagValue, sanitized, resanitized, namingVars,
                   ephemeralDone, callerVars, formatVars, urlVars>>

ReadProcessDataTags ==
    /\ readPc = "datatags"
    /\ LET res == ProcessDataTagsResult(tp.CloudProvider, tp.TagPrefix, config)
       IN  /\ dataTagsOut' = [called |-> TRUE, tags |-> res.tags, err |-> res.err]
           /\ diagnostics' = IF res.err # "" THEN <<"Failed to generate data tags">>
                             ELSE diagnostics
           /\ readPc' = IF res.err # "" THEN "returned" ELSE "state"
    /\ UNCHANGED <<providerConfig, stateOut, tp, config, tagsOut, gitVars, namingVars,
                   cloudVars, ephemeralDone, callerVars, formatVars, urlVars>>

\* the computed values are set and the state is saved; the formatted outputs
\* are the three formatters applied to Tags and to DataTags
ReadSetState ==
    /\ readPc = "state"
    /\ stateOut' = [set |-> TRUE, ID |-> genOut.value, NamePrefix |-> genOut.value,
                    Tags |-> tagsOut.tags, DataTags |-> dataTagsOut.tags]
    /\ readPc' = "returned"
    /\ UNCHANGED <<providerConfig, diagnostics, namingVars, cloudVars, tagVars, gitVars,
                   ephemeralDone, callerVars, formatVars, urlVars>>

NextRead ==
    \/ ReadValidation
    \/ ReadEphemeral
    \/ ReadGenerate
    \/ ReadProcess
    \/ ReadProcessDataTags
    \/ ReadSetState

SpecRead == InitRead /\ [][NextRead]_vars

----------------------------------------------------------------------------
(* The cache under a fair scheduler: a goroutine that can take its next step *)
(* takes it, a goroutine waiting for gitCacheLock gets it when it is free    *)
(* again and again, and the two git commands return                          *)

InitGitFair ==
    /\ InitGit
    /\ gitEnv \in {NoContext, InRepository}

\* the minutes pass until the cache is gitCacheTTL old: the clock is read only
\* to stamp the cache and to compare its age with gitCacheTTL
Expire ==
    /\ gitCache # Nil
    /\ now - gitCacheTime < gitCacheTTL
    /\ gitCacheTime + gitCacheTTL <= MaxTime
    /\ now' = gitCacheTime + gitCacheTTL
    /\ Disturb
    /\ UNCHANGED <<pc, local, ret, ran, startKind, gitCache, gitCacheTime, gitEnv,
                   namingVars, cloudVars, tagVars, ephemeralDone, formatVars,
                   retErr, cleared, clearPc, cacheOwner,
                   readVars, urlVars>>

NextGitFair ==
    \/ \E c \in Callers :
          \/ Call(c) \/ RLock(c) \/ ReadCheck(c) \/ Lock(c) \/ Recheck(c)
          \/ QueryRepoURL(c) \/ QueryCommitHash(c) \/ Store(c)
    \/ ClearCall
    \/ ClearGitCache
    \/ Expire

\* a caller's steps that wait for nothing
Runs(c) ==
    ReadCheck(c) \/ Recheck(c) \/ QueryRepoURL(c) \/ QueryCommitHash(c) \/ Store(c)

FairGit ==
    /\ \A c \in Callers :
          /\ SF_vars(RLock(c) \/ Lock(c))
          /\ WF_vars(Runs(c))
    /\ SF_vars(ClearGitCache)

SpecGitFair == InitGitFair /\ [][NextGitFair]_vars /\ FairGit

----------------------------------------------------------------------------
(* Remote URLs: convertSSHToHTTPS is run on a URL *)

UrlSchemes == {<<>>, <<"g","i","t","@">>, <<"s","s","h",":","/","/">>, <<"s","s","h",":","/","/","g","i","t","@">>, <<"h","t","t","p","s",":","/","/">>, <<"G","i","t","@">>}

UrlHosts == {<<"h",".","i","o">>, <<"g","i","t","@","h">>}

UrlSeparators == {<<":">>, <<"/">>, <<":","7","/">>}

UrlPaths == {<<>>, <<"u","/","r">>, <<"u",":","r">>}

UrlEndings == {<<>>, <<".","g","i","t">>, <<".","g","i","t",".","g","i","t">>, <<".","g","i","t","/">>}

RemoteURLs ==
    {scheme \o host \o sep \o path \o ending :
        scheme \in UrlSchemes, host \in UrlHosts, sep \in UrlSeparators,
        path \in UrlPaths, ending \in UrlEndings}
        \cup {<<>>, <<"g","i","t","@">>, <<"s","s","h",":","/","/">>, <<".","g","i","t">>, <<"g","i","t","@",".","g","i","t">>}

InitUrl ==
    /\ urlIn \in RemoteURLs
    /\ urlOut = NoValue
    /\ NamingIdle
    /\ CloudIdle
    /\ TagsIdle
    /\ GitIdle
    /\ CallersIdle
    /\ FormatIdle
    /\ ReadIdle

convertSSHToHTTPSCall ==
    /\ ~urlOut.called
    /\ urlOut' = [called |-> TRUE, value |-> convertSSHToHTTPS(urlIn)]
    /\ UNCHANGED <<urlIn, namingVars, cloudVars, tagVars, gitVars, ephemeralDone,
                   callerVars, formatVars, readVars>>

NextUrl == convertSSHToHTTPSCall

SpecUrl == InitUrl /\ [][NextUrl]_vars

----------------------------------------------------------------------------
(* The cache with callers that write to the GitInfo they were handed *)

\* what a caller writes into the RepoURL of its GitInfo
EditedURL == <<"e","d","i","t","e","d">>

\* a caller writes to the GitInfo GetGitInfo returned to it: on a hit that is
\* &info, a copy; after a refresh it is info, the object gitCache points to
Mutate(c) ==
    /\ pc[c] = "done"
    /\ ret[c].RepoURL # EditedURL
    /\ ret' = [ret EXCEPT ![c].RepoURL = EditedURL]
    /\ gitCache' = IF cacheOwner = c THEN [gitCache EXCEPT !.RepoURL = EditedURL]
                   ELSE gitCache
    /\ UNCHANGED <<pc, local, ran, startKind, disturbed, gitCacheTime, now, gitEnv,
                   namingVars, cloudVars, tagVars, ephemeralDone, formatVars,
                   retErr, cleared, clearPc, cacheOwner,
                   readVars, urlVars>>

NextGitShared ==
    \/ \E c \in Callers :
          \/ Call(c) \/ RLock(c) \/ ReadCheck(c) \/ Lock(c) \/ Recheck(c)
          \/ QueryRepoURL(c) \/ QueryCommitHash(c) \/ Store(c)
          \/ Mutate(c)
    \/ ClearCall
    \/ ClearGitCache
    \/ Expire

SpecGitShared == InitGitFair /\ [][NextGitShared]_vars

Init ==
    InitNaming \/ InitCloud \/ InitTags \/ InitEphemeral \/ InitFormat \/ InitGit
        \/ InitRead \/ InitUrl

Next ==
    NextNaming \/ NextCloud \/ NextTags \/ NextEphemeral \/ NextFormat \/ NextGit
        \/ NextRead \/ NextUrl

Spec == Init /\ [][Next]_vars

----------------------------------------------------------------------------
(* Vocabulary of the properties, stated apart from the operators above *)

LowerSet == {LowerLetters[i] : i \in 1..Len(LowerLetters)}

UpperSet == {UpperLetters[i] : i \in 1..Len(UpperLetters)}

\* the identifier pattern ^[a-z][a-z0-9-]{0,22}[a-z0-9]$, as a set condition
IsIdentifier(s) ==
    /\ Len(s) \in 2..24
    /\ s[1] \in LowerSet
    /\ s[Len(s)] \in LowerSet \cup Digits
    /\ \A i \in 1..Len(s) : s[i] \in LowerSet \cup Digits \cup {"-"}

IsLowercase(s) == \A i \in 1..Len(s) : s[i] \notin UpperSet

AllEmpty(g) == g.Namespace = <<>> /\ g.Name = <<>> /\ g.Environment = <<>>

AllPresent(g) == g.Namespace # <<>> /\ g.Name # <<>> /\ g.Environment # <<>>

Separator(x, y) == IF x # <<>> /\ y # <<>> THEN <<"-">> ELSE <<>>

\* the non-empty fields in the order namespace, name, environment, hyphen-joined
Joined(g) ==
    g.Namespace \o Separator(g.Namespace, g.Name \o g.Environment)
    \o g.Name \o Separator(g.Name, g.Environment) \o g.Environment

LowerJoined(g) == ToLower(Joined(g))

\* the space left for the name beside namespace, environment and two hyphens
SpaceForName(g) == 24 - Len(g.Namespace) - Len(g.Environment) - 2

\* the part of a namespace-segment-environment result between the two hyphens
NameSegment(g, r) ==
    SubSeq(r, Len(g.Namespace) + 2, Len(r) - Len(g.Environment) - 1)

Returned == genOut.called /\ genOut.err = ""

Rejected == genOut.called /\ genOut.err # ""

----------------------------------------------------------------------------
(* C1..C6: the name generator, under SpecNaming *)

C2_JoinedReturnedWhenShort ==
    (genOut.called /\ Len(LowerJoined(ng)) <= 24)
        => (Returned /\ genOut.value = LowerJoined(ng))

\* C2 amended: whenever the joined, lowercased identifier is at most 24
\* characters long and matches the identifier pattern, Generate returns exactly
\* that string (the lowercased name when namespace and environment are empty);
\* when it is that short and does not match, Generate fails.
C2_JoinedReturnedWhenShortAndValid ==
    (genOut.called /\ Len(LowerJoined(ng)) <= 24) =>
        /\ IsIdentifier(LowerJoined(ng)) => (Returned /\ genOut.value = LowerJoined(ng))
        /\ ~IsIdentifier(LowerJoined(ng)) => Rejected
        /\ (Returned /\ ng.Namespace = <<>> /\ ng.Environment = <<>>)
              => genOut.value = ToLower(ng.Name)

C2_Witness ==
    /\ Returned
    /\ AllPresent(ng)
    /\ Len(LowerJoined(ng)) <= 24
    /\ genOut.value = LowerJoined(ng)
    /\ genOut.value # Joined(ng)

C4_TruncationTidy ==
    truncOut.called =>
        /\ ~HasSuffix(truncOut.value, <<"-">>)
        /\ Len(truncOut.value) >= 2
        /\ (AllPresent(ng) /\ SpaceForName(ng) >= 2)
              => ~HasSuffix(NameSegment(ng, truncOut.value), <<"-">>)

C6_GenerateCaseInsensitive ==
    genOut.called =>
        LET lowered == [Namespace   |-> ToLower(ng.Namespace),
                        Name        |-> ToLower(ng.Name),
                        Environment |-> ToLower(ng.Environment)]
            r       == GenerateResult(lowered)
        IN  /\ (genOut.err = "") <=> (r.err = "")
            /\ genOut.err = "" => genOut.value = r.value

----------------------------------------------------------------------------
(* C7..C10: the cloud format rules, under SpecCloud *)

\* the input with every character of D removed
RECURSIVE Without(_, _)
Without(s, D) ==
    IF s = <<>> THEN <<>>
    ELSE IF Head(s) \in D THEN Without(Tail(s), D)
    ELSE <<Head(s)>> \o Without(Tail(s), D)

Contains(s, D) == \E i \in 1..Len(s) : s[i] \in D

\* the characters C8 names as allowed in an AWS tag value
AWSAllowedChars ==
    LowerSet \cup UpperSet \cup Digits \cup {" ", ".", ":", "=", "+", "@", "_", "/", "-"}

\* the characters C9 names as disallowed in an Azure tag value
AzureDisallowedChars == {" ", "<", ">", "%", "&", "\\", "?", "/", "#", ":"}

\* the characters of ^[a-z0-9_-]*$
GCPLabelChars == LowerSet \cup Digits \cup {"_", "-"}

Sanitized(p) == sanitized.called /\ cp = p

\* C7: GetCloudProvider is total: "aws" selects the AWS rules (256, " ",
\* "N/A"), "az" the Azure rules (256, ";", "NotApplicable"), "gcp" the GCP
\* rules (63, "_", "not_applicable") and every other identifier the generic
\* rules (63, ";", "N/A").
C7_GetCloudProviderTotal ==
    /\ cp \in CloudProviders \cup {"none"}
    /\ cp # "none" =>
          LET rules == <<GetMaxTagLength(cp), GetDelimiter(cp), GetNAValue(cp)>>
          IN  /\ providerId = "aws" =>
                    (cp = AWSProvider /\ rules = <<256, <<" ">>, <<"N", "/", "A">>>>)
              /\ providerId = "az" =>
                    (cp = AzureProvider /\ rules = <<256, <<";">>, <<"N", "o", "t", "A", "p", "p", "l", "i", "c", "a", "b", "l", "e">>>>)
              /\ providerId = "gcp" =>
                    (cp = GCPProvider /\ rules = <<63, <<"_">>, <<"n", "o", "t", "_", "a", "p", "p", "l", "i", "c", "a", "b", "l", "e">>>>)
              /\ providerId \notin {"aws", "az", "gcp"} =>
                    (cp = DefaultProvider /\ rules = <<63, <<";">>, <<"N", "/", "A">>>>)

C7_Witness ==
    /\ providerId = "oci"
    /\ cp = DefaultProvider

\* C8: for the AWS rule, SanitizeTagValue keeps every character of the allowed
\* set (letters, digits, space, . : = + @ _ / -) and replaces every other
\* character with "_", one for one.
C8_AWSSanitizeReplacesOutsideAllowed ==
    Sanitized(AWSProvider) =>
        /\ Len(sanitized.value) = Len(tagValue)
        /\ \A i \in 1..Len(tagValue) :
              sanitized.value[i] = IF tagValue[i] \in AWSAllowedChars
                                   THEN tagValue[i] ELSE "_"

\* C9: for the Azure rule, SanitizeTagValue returns the input with exactly the
\* characters space < > % & \ ? / # : removed, never a replacement, so the
\* output is strictly shorter whenever the input holds one of them.
C9_AzureSanitizeDeletes ==
    Sanitized(AzureProvider) =>
        /\ sanitized.value = Without(tagValue, AzureDisallowedChars)
        /\ ~Contains(sanitized.value, AzureDisallowedChars)
        /\ Contains(tagValue, AzureDisallowedChars) => Len(sanitized.value) < Len(tagValue)
        /\ ~Contains(tagValue, AzureDisallowedChars) => sanitized.value = tagValue

C9_Witness ==
    /\ Sanitized(AzureProvider)
    /\ Contains(tagValue, AzureDisallowedChars)
    /\ Len(sanitized.value) = 1

\* C10: for the GCP rule, the output of SanitizeTagValue is lowercase and
\* matches ^[a-z0-9_-]*$: the value is lowercased first, then every character
\* outside [a-z0-9_-] is replaced by "-".
C10_GCPSanitizeLowercaseLabel ==
    Sanitized(GCPProvider) =>
        /\ IsLowercase(sanitized.value)
        /\ \A i \in 1..Len(sanitized.value) : sanitized.value[i] \in GCPLabelChars
        /\ Len(sanitized.value) = Len(tagValue)
        /\ \A i \in 1..Len(tagValue) :
              sanitized.value[i] =
                  IF tagValue[i] \in UpperSet \/ tagValue[i] \in GCPLabelChars
                  THEN ToLowerChar(tagValue[i]) ELSE "-"

C10_Witness ==
    /\ Sanitized(GCPProvider)
    /\ Contains(tagValue, UpperSet)
    /\ Contains(tagValue, {" ", "@", "#"})

\* C11: sanitizing is idempotent for all four providers: sanitizing an already
\* sanitized value returns it unchanged.
C11_SanitizeIdempotent ==
    resanitized.called => resanitized.value = sanitized.value

C11_Witness ==
    /\ resanitized.called
    /\ cp = DefaultProvider
    /\ sanitized.value # tagValue
    /\ Len(tagValue) = 2

----------------------------------------------------------------------------
(* C12..C16: the tag processor, under SpecTags *)

\* the scalar fields Process turns into a tag of their own, with the tag's key
ProcessScalars ==
    {<<"EnvironmentName", TagKey.environment>>, <<"Availability", TagKey.availability>>,
     <<"ManagedBy", TagKey.managedby>>, <<"DeletionDate", TagKey.deletiondate>>,
     <<"CostCenter", TagKey.costcenter>>, <<"PMProjectCode", TagKey.projectmgmtid>>,
     <<"ITSMSystemID", TagKey.systemid>>, <<"ITSMComponentID", TagKey.componentid>>,
     <<"ITSMInstanceID", TagKey.instanceid>>, <<"SecurityReview", TagKey.securityreview>>,
     <<"PrivacyReview", TagKey.privacyreview>>}

\* the same for ProcessDataTags
DataScalars == {<<"Sensitivity", TagKey.sensitivity>>}

Prefixed(key) == tp.TagPrefix \o key

Has(out, key) == Prefixed(key) \in DOMAIN out.tags

ValueOf(out, key) == out.tags[Prefixed(key)]

NAValue == GetNAValue(tp.CloudProvider)

\* the first n characters of value, all of it when it is shorter
Cut(value, n) == [i \in 1..(IF Len(value) < n THEN Len(value) ELSE n) |-> value[i]]

\* what the output holds for an assembled value
Final(value) ==
    Cut(SanitizeTagValue(tp.CloudProvider, value), GetMaxTagLength(tp.CloudProvider))

C13_EmptyScalarIsNA ==
    config.NotApplicableEnabled =>
        /\ tagsOut.called =>
              \A fk \in ProcessScalars :
                  (config[fk[1]] = <<>> /\ fk[2] \notin DOMAIN config.AdditionalTags)
                      => (Has(tagsOut, fk[2]) /\ ValueOf(tagsOut, fk[2]) = NAValue)
        /\ dataTagsOut.called =>
              \A fk \in DataScalars :
                  (config[fk[1]] = <<>> /\ fk[2] \notin DOMAIN config.AdditionalDataTags)
                      => (Has(dataTagsOut, fk[2]) /\ ValueOf(dataTagsOut, fk[2]) = NAValue)

AssembledTags ==
    processAssembled(tp.CloudProvider, config, [info |-> gitCache, err |-> ""])

AssembledDataTags == dataAssembled(tp.CloudProvider, config)

\* out is assembled with every key prefixed and every value sanitized and cut
PrefixedSanitizedCut(out, assembled) ==
    /\ DOMAIN out.tags = {Prefixed(k) : k \in DOMAIN assembled}
    /\ \A k \in DOMAIN assembled : ValueOf(out, k) = Final(assembled[k])
    /\ \A key \in DOMAIN out.tags :
          /\ HasPrefix(key, tp.TagPrefix)
          /\ Len(out.tags[key]) <= GetMaxTagLength(tp.CloudProvider)
          /\ SanitizeTagValue(tp.CloudProvider, out.tags[key]) = out.tags[key]

\* C15: in every returned tag set each key is tagPrefix followed by an
\* assembled key and each value is the provider-sanitized assembled value cut
\* to the provider's maximum length; so no value is longer than that maximum
\* and every value is a fixed point of the provider's sanitizer.
C15_OutputPrefixedSanitizedCut ==
    /\ tagsOut.called => PrefixedSanitizedCut(tagsOut, AssembledTags)
    /\ dataTagsOut.called => PrefixedSanitizedCut(dataTagsOut, AssembledDataTags)

C15_Witness ==
    /\ tagsOut.called
    /\ dataTagsOut.called
    /\ tp.CloudProvider = AzureProvider
    /\ tp.TagPrefix # <<>>
    /\ \E key \in DOMAIN tagsOut.tags : Len(tagsOut.tags[key]) = 256
    /\ \E key \in DOMAIN dataTagsOut.tags : Len(dataTagsOut.tags[key]) = 256

RepoKeys == {TagKey.sourcerepo, TagKey.sourcecommit}

----------------------------------------------------------------------------
(* C17: ephemeral environments, under SpecEphemeral *)

DigitValue(c) == CHOOSE n \in 0..9 : DecimalDigits[n + 1] = c

IsDecimal(s) == \A i \in 1..Len(s) : s[i] \in Digits

RECURSIVE Number(_)
Number(s) ==
    IF s = <<>> THEN 0
    ELSE 10 * Number(SubSeq(s, 1, Len(s) - 1)) + DigitValue(s[Len(s)])

\* s is YYYY-MM-DD and names the day with number day
IsDateOfDay(s, day) ==
    /\ Len(s) = 10
    /\ s[5] = "-"
    /\ s[8] = "-"
    /\ IsDecimal(SubSeq(s, 1, 4)) /\ IsDecimal(SubSeq(s, 6, 7)) /\ IsDecimal(SubSeq(s, 9, 10))
    /\ Number(SubSeq(s, 6, 7)) \in 1..12
    /\ Number(SubSeq(s, 9, 10)) \in 1..31
    /\ DaysFromCivil(Number(SubSeq(s, 1, 4)), Number(SubSeq(s, 6, 7)),
                     Number(SubSeq(s, 9, 10))) = day

Today == now \div MinutesPerDay

----------------------------------------------------------------------------
(* C18: the output formatters, under SpecFormat *)

\* entries lists one entry per key of tags, keys ascending
OnePerKeyAscending(entryKeys, tags) ==
    /\ Len(entryKeys) = Cardinality(DOMAIN tags)
    /\ {entryKeys[i] : i \in 1..Len(entryKeys)} = DOMAIN tags
    /\ \A i \in 1..(Len(entryKeys) - 1) : StringLess(entryKeys[i], entryKeys[i + 1])

\* the pairs with "," between them, written out
RECURSIVE CommaJoined(_)
CommaJoined(pairs) ==
    IF pairs = <<>> THEN <<>>
    ELSE IF Len(pairs) = 1 THEN pairs[1]
    ELSE pairs[1] \o <<",">> \o CommaJoined(Tail(pairs))

\* the key=value strings of tags in ascending key order
AscendingPairs(tags) ==
    CHOOSE pairs \in [1..Cardinality(DOMAIN tags) -> {k \o <<"=">> \o tags[k] : k \in DOMAIN tags}] :
        \E keys \in [1..Cardinality(DOMAIN tags) -> DOMAIN tags] :
            /\ OnePerKeyAscending(keys, tags)
            /\ \A i \in DOMAIN pairs : pairs[i] = keys[i] \o <<"=">> \o tags[keys[i]]

\* C18: the three formatters are deterministic and key-sorted:
\* ConvertTagsToListOfMaps and ConvertTagsToKVPList return exactly one entry
\* per tag in ascending lexicographic key order ({key, value} pairs and
\* "key=value" strings), ConvertTagsToCommaSeparated is that key=value list
\* joined with ","; the result does not depend on the order the map is
\* iterated in.
C18_FormattersKeySorted ==
    /\ listOut.called =>
          /\ OnePerKeyAscending([i \in DOMAIN listOut.value |-> listOut.value[i].key], fmtTags)
          /\ \A i \in DOMAIN listOut.value :
                listOut.value[i] = [key |-> listOut.value[i].key,
                                    value |-> fmtTags[listOut.value[i].key]]
    /\ kvpOut.called => kvpOut.value = AscendingPairs(fmtTags)
    /\ csvOut.called => csvOut.value = CommaJoined(AscendingPairs(fmtTags))

C18_Witness ==
    /\ listOut.called
    /\ kvpOut.called
    /\ csvOut.called
    /\ Len(iterOrder) = 3
    /\ StringLess(iterOrder[3], iterOrder[2])
    /\ StringLess(iterOrder[2], iterOrder[1])
    /\ kvpOut.value = <<<<"=">>, <<"B", "=", "v", ",", "w", "=", "x">>, <<"a", "=", "b", "=">>>>
    /\ csvOut.value = <<"=", ",", "B", "=", "v", ",", "w", "=", "x", ",", "a", "=", "b", "=">>

----------------------------------------------------------------------------
(* C19, C20: the repository metadata cache, under SpecGit *)

\* the cache is populated and younger than 5 minutes
Fresh == gitCache # Nil /\ now - gitCacheTime < 5

Returns(c) == pc[c] # "done" /\ pc'[c] = "done"

\* the caller makes one of its two tests of the cache
Tests(c) == pc[c] \in {"rlocked", "wlocked"} /\ pc'[c] # pc[c]

\* C19: GetGitInfo returns the cached metadata without running the git
\* commands whenever the cache it tests is populated and less than 5 minutes
\* old; otherwise (never populated, cleared, or 5 minutes old or more) it takes
\* the exclusive lock, and when the cache is still not fresh there it runs the
\* two commands, stores the result with the current time and returns it.
C19_CachedWhileFresh ==
    [][\A c \in Callers :
          /\ (Tests(c) /\ Fresh) =>
                /\ Returns(c)
                /\ ret'[c] = gitCache
                /\ ~ran'[c]
                /\ gitCache' = gitCache
                /\ gitCacheTime' = gitCacheTime
          /\ (Tests(c) /\ ~Fresh) =>
                /\ ~Returns(c)
                /\ pc'[c] = IF pc[c] = "rlocked" THEN "miss" ELSE "url"
                /\ ret'[c] = ret[c]
          /\ (Returns(c) /\ ~Tests(c)) =>
                /\ ran[c]
                /\ pc[c] = "store"
                /\ ret'[c] = local[c]
                /\ gitCache' = ret'[c]
                /\ gitCacheTime' = now
          /\ (pc[c] = "url" /\ pc'[c] # pc[c]) => (pc'[c] = "hash" /\ ran'[c])
          /\ (pc[c] = "hash" /\ pc'[c] # pc[c]) => pc'[c] = "store"]_vars

C19_Witness ==
    /\ \A c \in Callers : pc[c] = "done"
    /\ startKind[1] = "empty" /\ ran[1]
    /\ startKind[2] = "expired" /\ ran[2]
    /\ ret[1] # ret[2]
    /\ gitCache = ret[2]
    /\ gitCacheTime = now
    /\ now >= 5

\* the callers that called on an unpopulated or expired cache, no clear and no
\* expiry since
Herd ==
    {c \in Callers : pc[c] # "idle" /\ startKind[c] \in {"empty", "expired"} /\ ~disturbed[c]}

\* C20: when several callers run GetGitInfo concurrently on an unpopulated or
\* expired cache, no ClearGitCache and no expiry intervening, at most one of
\* them runs the git commands, exactly one once all of them have returned; a
\* caller that did not run them returns the value another caller stored, and
\* all of them return the same metadata.
C20_OneRefreshPerHerd ==
    /\ Cardinality({c \in Herd : ran[c]}) <= 1
    /\ \A c, d \in Herd : (pc[c] = "done" /\ pc[d] = "done") => ret[c] = ret[d]
    /\ \A c \in Herd :
          (pc[c] = "done" /\ ~ran[c]) =>
              \E d \in Callers \ {c} : ran[d] /\ pc[d] = "done" /\ ret[d] = ret[c]
    /\ (Herd = Callers /\ \A c \in Callers : pc[c] = "done") =>
          Cardinality({c \in Herd : ran[c]}) = 1

C20_Witness ==
    /\ Herd = Callers
    /\ pc[1] = "done"
    /\ ran[1]
    /\ pc[2] = "wlocked"
    /\ Fresh
    /\ gitCache = ret[1]

----------------------------------------------------------------------------
(* C21: ClearGitCache, under SpecGit *)

\* C21: ClearGitCache resets the cache to its unpopulated state (no cached
\* value, zero timestamp) whatever the state before, and a GetGitInfo that
\* tests the cache after a clear, nothing stored since, goes on to run the git
\* commands, also when the cleared entry was younger than 5 minutes.
C21_ClearResets ==
    /\ [](cleared => (gitCache = Nil /\ gitCacheTime = -1))
    /\ [][(clearPc = "waiting" /\ clearPc' = "idle") => cleared']_vars
    /\ [][\A c \in Callers :
             (Tests(c) /\ cleared) =>
                 /\ ~Returns(c)
                 /\ pc'[c] = IF pc[c] = "rlocked" THEN "miss" ELSE "url"]_vars

C21_Witness ==
    /\ \A c \in Callers : pc[c] = "done" /\ ran[c]
    /\ startKind[2] = "empty"
    /\ cacheOwner = 2
    /\ ret[1] = ret[2]
    /\ ret[2].CommitHash # <<>>
    /\ now < 5
----------------------------------------------------------------------------
(* C22: the data source's Read, under SpecRead *)

\* the summaries of the validation errors, in the order of the checks
CheckOrder ==
    <<"Invalid namespace", "Invalid environment", "Invalid environment_type",
      "Invalid availability", "Invalid sensitivity", "Invalid deletion_date",
      "Invalid product_owners", "Invalid code_owners", "Invalid data_owners">>

\* whether the check at place i of the order rejects the configuration
Rejects(i, cfg) ==
    CASE i = 1 -> ~ValidateNamespace(cfg.Namespace)
      [] i = 2 -> ~ValidateEnvironment(cfg.Environment)
      [] i = 3 -> ~ValidateEnvironmentType(cfg.EnvironmentType)
      [] i = 4 -> ~ValidateAvailability(cfg.Availability)
      [] i = 5 -> ~ValidateSensitivity(cfg.Sensitivity)
      [] i = 6 -> ~ValidateDeletionDate(cfg.DeletionDate)
      [] i = 7 -> ~ValidateEmails(cfg.ProductOwners)
      [] i = 8 -> ~ValidateEmails(cfg.CodeOwners)
      [] i = 9 -> ~ValidateEmails(cfg.DataOwners)

RejectedAt(cfg) == {i \in 1..Len(CheckOrder) : Rejects(i, cfg)}

\* nothing of the tag work has happened: Process and ProcessDataTags were not
\* called, no TagProcessor was built and the repository was not asked
NoTagWork ==
    /\ ~tagsOut.called
    /\ ~dataTagsOut.called
    /\ tp = NoTagProcessor
    /\ gitCache = Nil
    /\ gitCacheTime = -1

\* C22: in Read a configuration that some check rejects gets the error of the
\* first rejecting check of the fixed order and no other, and one that passes
\* the checks but whose name cannot be generated gets the name error and no
\* other; with the error Read has returned, never taking a further step, no
\* state is set, no name prefix is held, and no tag work was started
C22_FirstFailureHalts ==
    /\ [](Len(diagnostics) <= 1)
    /\ []((readPc # "validation" /\ RejectedAt(config) # {}) =>
            /\ \E i \in RejectedAt(config) :
                  /\ \A j \in RejectedAt(config) : i <= j
                  /\ diagnostics = <<CheckOrder[i]>>
            /\ ~genOut.called)
    /\ []((genOut.called /\ genOut.err # "") =>
            /\ diagnostics = <<"Failed to generate name prefix">>
            /\ genOut.value = <<>>)
    /\ [](diagnostics # <<>> =>
            /\ readPc = "returned"
            /\ ~stateOut.set
            /\ NoTagWork)
    /\ [][diagnostics = <<>>]_vars

\* two fields are invalid and Read has returned with the error of the first
C22_Witness ==
    /\ readPc = "returned"
    /\ config.Environment = <<"P","R","O","D">>
    /\ config.Sensitivity = <<"s","e","c","r","e","t">>
    /\ diagnostics = <<"Invalid environment">>
----------------------------------------------------------------------------
(* C23: the keys of the tag sets, under SpecTags *)

\* C23: every key of the tag sets Process and ProcessDataTags return satisfies
\* ValidateTagKey of the TagProcessor's cloud provider
C23_KeysValid ==
    /\ tagsOut.called =>
          \A key \in DOMAIN tagsOut.tags : ValidateTagKey(tp.CloudProvider, key)
    /\ dataTagsOut.called =>
          \A key \in DOMAIN dataTagsOut.tags : ValidateTagKey(tp.CloudProvider, key)
----------------------------------------------------------------------------
(* C24: no call blocks for ever, under SpecGitFair *)

\* C24: every caller that has entered GetGitInfo gets to its return, every
\* caller that has entered ClearGitCache gets to its return, and what
\* GetGitInfo returns as its error is nil
C24_CallsReturn ==
    /\ \A c \in Callers : (pc[c] = "called") ~> (pc[c] = "done")
    /\ (clearPc = "waiting") ~> (clearPc = "idle")
    /\ [](\A c \in Callers : pc[c] = "done" => retErr[c] = "")

\* one caller runs the git commands under the exclusive lock while another,
\* past its read of the cache, waits for that lock and a ClearGitCache waits too
C24_Witness ==
    /\ pc[1] = "miss"
    /\ pc[2] = "hash"
    /\ clearPc = "waiting"
----------------------------------------------------------------------------
(* C25: the fallback of the truncation, under SpecNaming *)

\* the first 24 characters of the joined lowercase string
Cut24(g) == SubSeq(LowerJoined(g), 1, 24)

\* the truncation takes the fallback
FallsBack(g) == ~(AllPresent(g) /\ SpaceForName(g) >= 2)

\* s is t less every trailing hyphen
LessTrailingHyphens(s, t) ==
    /\ HasPrefix(t, s)
    /\ \A i \in (Len(s) + 1)..Len(t) : t[i] = "-"
    /\ s = <<>> \/ s[Len(s)] # "-"

\* s is t less its trailing hyphens, as many as leave 2 characters
LessTrailingHyphensDownTo2(s, t) ==
    /\ HasPrefix(t, s)
    /\ Len(s) >= 2
    /\ \A i \in (Len(s) + 1)..Len(t) : t[i] = "-"
    /\ Len(s) = 2 \/ s[Len(s)] # "-"

\* C25 as stated: when the truncation runs and takes the fallback, its result
\* is the first 24 characters of the joined lowercase string less every
\* trailing hyphen
C25_FallbackStripsHyphens ==
    (truncOut.called /\ FallsBack(ng)) => LessTrailingHyphens(truncOut.value, Cut24(ng))

\* C25 amended: when the truncation runs and takes the fallback, its result is
\* the first 24 characters of the joined lowercase string less its trailing
\* hyphens, as many as leave 2 characters, and then less one more character
\* when the last one left is no lowercase letter and no digit
C25_FallbackStripsAndDropsOne ==
    (truncOut.called /\ FallsBack(ng)) =>
        \E n \in 2..24 :
            LET kept == SubSeq(Cut24(ng), 1, n)
            IN  /\ LessTrailingHyphensDownTo2(kept, Cut24(ng))
                /\ truncOut.value =
                      IF IsLower(kept[n]) \/ IsDigit(kept[n]) THEN kept
                      ELSE SubSeq(kept, 1, n - 1)

\* the case the tests give: the space left for the name is 1
C25_Witness ==
    /\ truncOut.called
    /\ ng.Namespace = <<"v","e","r","y","l","o","n","g","o","r","g">>
    /\ ng.Name = <<"v","e","r","y","l","o","n","g","a","p","p","n","a","m","e">>
    /\ ng.Environment = <<"p","r","o","d","u","c","t","i","o","n">>
    /\ truncOut.value = <<"v","e","r","y","l","o","n","g","o","r","g","-","v","e","r","y","l","o","n","g","a","p","p","n">>
----------------------------------------------------------------------------
(* C26: the owner tags, under SpecTags *)

\* C26: with the owner-tags toggle off, the output of Process holds no
\* productowners and no codeowners key and the output of ProcessDataTags no
\* dataowners key, unless the additional tags of that set supply the key,
\* whatever the owner lists and the not-applicable toggle; with the toggle on
\* or off the dataregulations key is there exactly when there are data
\* regulations, or the not-applicable toggle is on, or the additional data
\* tags supply it
C26_OwnerTagsGated ==
    /\ (tagsOut.called /\ ~config.OwnerTagsEnabled) =>
          \A k \in {TagKey.productowners, TagKey.codeowners} :
              k \notin DOMAIN config.AdditionalTags => ~Has(tagsOut, k)
    /\ (dataTagsOut.called /\ ~config.OwnerTagsEnabled) =>
          (TagKey.dataowners \notin DOMAIN config.AdditionalDataTags
              => ~Has(dataTagsOut, TagKey.dataowners))
    /\ dataTagsOut.called =>
          (Has(dataTagsOut, TagKey.dataregulations)
              <=> \/ config.DataRegs # <<>>
                  \/ config.NotApplicableEnabled
                  \/ TagKey.dataregulations \in DOMAIN config.AdditionalDataTags)
----------------------------------------------------------------------------
(* C27: the remote URL, under SpecUrl *)

\* t is s with its first ':' turned into '/', s itself when it has none
FirstColonSlashed(s, t) ==
    \/ t = s /\ \A i \in 1..Len(s) : s[i] # ":"
    \/ \E k \in 1..Len(s) :
          /\ s[k] = ":"
          /\ \A i \in 1..(k - 1) : s[i] # ":"
          /\ t = [s EXCEPT ![k] = "/"]

\* t is s less one trailing ".git", s itself when it does not end so
LessDotGit(s, t) ==
    IF HasSuffix(s, <<".","g","i","t">>) THEN s = t \o <<".","g","i","t">> ELSE t = s

\* t is "https://" and s with its first ':' turned into '/', less one trailing ".git"
HttpsOf(s, t) ==
    \E body \in {[s EXCEPT ![k] = "/"] : k \in 1..Len(s)} \cup {s} :
        /\ FirstColonSlashed(s, body)
        /\ LessDotGit(<<"h","t","t","p","s",":","/","/">> \o body, t)

\* C27: for an input that starts with git@ the result is https:// and the rest
\* of the input with its first ':' turned into '/', less a trailing .git; for
\* an input that starts with ssh:// the same holds of what follows ssh:// and
\* a git@ after it; any other input only loses a trailing .git, so that an
\* https URL that does not end with .git is returned unchanged
C27_ConvertByCase ==
    urlOut.called =>
        /\ HasPrefix(urlIn, <<"g","i","t","@">>) =>
              HttpsOf(SubSeq(urlIn, 5, Len(urlIn)), urlOut.value)
        /\ HasPrefix(urlIn, <<"s","s","h",":","/","/","g","i","t","@">>) =>
              HttpsOf(SubSeq(urlIn, 11, Len(urlIn)), urlOut.value)
        /\ (HasPrefix(urlIn, <<"s","s","h",":","/","/">>) /\ ~HasPrefix(urlIn, <<"s","s","h",":","/","/","g","i","t","@">>)) =>
              HttpsOf(SubSeq(urlIn, 7, Len(urlIn)), urlOut.value)
        /\ (~HasPrefix(urlIn, <<"g","i","t","@">>) /\ ~HasPrefix(urlIn, <<"s","s","h",":","/","/">>)) =>
              LessDotGit(urlIn, urlOut.value)
        /\ (HasPrefix(urlIn, <<"h","t","t","p","s",":","/","/">>) /\ ~HasSuffix(urlIn, <<".","g","i","t">>)) =>
              urlOut.value = urlIn

\* an ssh:// URL with git@, two colons and .git
C27_Witness ==
    /\ urlOut.called
    /\ urlIn = <<"s","s","h",":","/","/","g","i","t","@","h",".","i","o",":","u",":","r",".","g","i","t">>
    /\ urlOut.value = <<"h","t","t","p","s",":","/","/","h",".","i","o","/","u",":","r">>
----------------------------------------------------------------------------
(* C28: the GitInfo handed out, under SpecGitShared *)

\* C28: a caller changing the GitInfo it was handed leaves the cache, and so
\* what later calls of GetGitInfo return, as it was
C28_OwnCopy ==
    [][\A c \in Callers :
          (pc[c] = "done" /\ pc'[c] = "done" /\ ret'[c] # ret[c])
              => gitCache' = gitCache]_vars
----------------------------------------------------------------------------
(* C29: validated namespace and environment, under SpecNaming *)

\* namespace and environment are non-empty and pass their validators
ValidatedEnds(g) ==
    /\ g.Namespace # <<>>
    /\ g.Environment # <<>>
    /\ ValidateNamespace(g.Namespace)
    /\ ValidateEnvironment(g.Environment)

\* C29: with a namespace and an environment that are non-empty and pass
\* ValidateNamespace and ValidateEnvironment, and a non-empty name, the prefix
\* Generate returns without error starts with namespace + "-" and ends with
\* "-" + environment; when the truncation runs, the space left for the name is
\* at least 2 and its result starts and ends the same way
C29_ValidatedEndsKept ==
    (genOut.called /\ ValidatedEnds(ng) /\ ng.Name # <<>>) =>
        /\ Returned =>
              /\ HasPrefix(genOut.value, ng.Namespace \o <<"-">>)
              /\ HasSuffix(genOut.value, <<"-">> \o ng.Environment)
        /\ truncOut.called =>
              /\ SpaceForName(ng) >= 2
              /\ HasPrefix(truncOut.value, ng.Namespace \o <<"-">>)
              /\ HasSuffix(truncOut.value, <<"-">> \o ng.Environment)

\* namespace and environment of 8 characters, the name cut to 6 and its
\* trailing hyphen dropped
C29_Witness ==
    /\ Returned
    /\ truncOut.called
    /\ Len(ng.Namespace) = 8
    /\ Len(ng.Environment) = 8
    /\ ValidatedEnds(ng)
    /\ Len(genOut.value) = 23
----------------------------------------------------------------------------
(* C30: failed git commands, under SpecGit *)

\* the cache holds an empty field
HoldsEmptyField == gitCache # Nil /\ (gitCache.RepoURL = <<>> \/ gitCache.CommitHash = <<>>)

\* C30: a git command that fails leaves its field of the caller's GitInfo
\* empty, and the field stays so up to the store; the store populates the
\* cache with that GitInfo, stamps it with the current time and returns it with
\* a nil error; and a caller that tests a populated cache less than 5 minutes
\* old returns its fields, the empty ones too, with a nil error and without
\* having run the commands, whatever the repository has become since
C30_FailedQueriesCached ==
    [][\A c \in Callers :
          /\ (pc[c] = "url" /\ pc'[c] = "hash" /\ ~gitEnv.urlOk) => local'[c].RepoURL = <<>>
          /\ (pc[c] = "hash" /\ pc'[c] = "store") =>
                /\ local'[c].RepoURL = local[c].RepoURL
                /\ ~gitEnv.hashOk => local'[c].CommitHash = <<>>
          /\ (pc[c] = "store" /\ pc'[c] # pc[c]) =>
                /\ pc'[c] = "done"
                /\ gitCache' = local[c]
                /\ gitCacheTime' = now
                /\ ret'[c] = local[c]
                /\ retErr'[c] = ""
          /\ (Tests(c) /\ Fresh /\ HoldsEmptyField) =>
                /\ Returns(c)
                /\ ret'[c].RepoURL = gitCache.RepoURL
                /\ ret'[c].CommitHash = gitCache.CommitHash
                /\ retErr'[c] = ""
                /\ ~ran'[c]
                /\ gitCache' = gitCache]_vars

\* the commit hash could not be read at the refresh; a later caller got the
\* empty hash from the cache although the repository has a commit by now
C30_Witness ==
    /\ pc[1] = "done" /\ ran[1]
    /\ pc[2] = "done" /\ ~ran[2]
    /\ retErr[2] = ""
    /\ ret[2].RepoURL # <<>>
    /\ ret[2].CommitHash = <<>>
    /\ gitEnv.hashOk

====
